---- MODULE Spec2Model ----
(***************************************************************************)
(* Model of the satchecker ephemeris API (api/core/routes.py): the request *)
(* handlers of the /ephemeris/ endpoints, the time grid generator, the     *)
(* element-set resolver and the element-set parser they call, over a       *)
(* snapshot of the satellites and tle tables (api/core/database/models.py).*)
(* Time is counted in ticks of 10^-8 day, the precision of the default     *)
(* step 0.00138889 of routes.py:228: a Julian Date is a number of ticks, a *)
(* datetime is a number of ticks since datetime.min.                       *)
(***************************************************************************)
EXTENDS Integers, Sequences, FiniteSets, TLC

(***************************************************************************)
(* Bounds of the model                                                     *)
(***************************************************************************)
\* Julian Dates, in minutes, of datetime.min and of datetime.max, the
\* earliest and the latest instant a datetime can represent
DatetimeMinJD == 3
DatetimeMaxJD == 3000
\* date_collected given to a parsed user element text (the time of the
\* request), in minutes since datetime.min
CurrentTime == 30
\* the requests of one client the rate limiter admits in one window; the
\* code admits "100 per second, 2000 per minute" (routes.py:83-85)
RateLimit == 1

(***************************************************************************)
(* Program constants                                                       *)
(***************************************************************************)
\* routes.py:232 "if len(jd) > 1000: abort(400)"
MaxResults == 1000
\* routes.py:228 "default to 2 min": the literal 0.00138889 d, in ticks
DefaultStep == 138889
\* a minute, 1/1440 d = 0.00069444 d, in whole ticks (a day is 10^8 ticks):
\* two minutes are a little less than the default step
Minute == 100000000 \div 1440

Slots == {1, 2}

(***************************************************************************)
(* Element texts used by the tests (tests/test_integration.py)             *)
(***************************************************************************)
NL == "\n"

ISS_NAME == <<
    "I","S","S"," ","(","Z","A","R","Y","A",")" >>

\* test_integration.py:458 (test_get_ephemeris_by_tle)
ISS_A_LINE1 == <<
    "1"," ","2","5","5","4","4","U"," ","9","8","0","6","7","A"," "," "," ",
    "2","3","2","4","8",".","5","4","8","4","2","2","9","5"," "," ",".","0",
    "0","0","1","2","7","6","9"," "," ","0","0","0","0","0","+","0"," "," ",
    "2","2","9","3","6","-","3"," ","0"," "," ","9","9","9","7" >>

ISS_A_LINE2 == <<
    "2"," ","2","5","5","4","4"," "," ","5","1",".","6","4","1","6"," ","2",
    "9","0",".","4","2","9","9"," ","0","0","0","5","7","3","0"," "," ","3",
    "0",".","7","4","5","4"," ","1","3","2",".","9","7","5","1"," ","1","5",
    ".","5","0","2","3","8","1","1","7","4","1","4","2","5","5" >>

\* test_integration.py:819-824 (test_get_tle_data)
ISS_B_LINE1 == <<
    "1"," ","2","5","5","4","4","U"," ","9","8","0","6","7","A"," "," "," ",
    "2","4","1","1","6",".","7","6","5","7","0","8","9","4"," "," ",".","0",
    "0","0","6","2","8","9","4"," "," ","0","0","0","0","0","+","0"," "," ",
    "1","0","6","5","4","-","2"," ","0"," "," ","9","9","9","6" >>

ISS_B_LINE2 == <<
    "2"," ","2","5","5","4","4"," "," ","5","1",".","6","3","9","6"," ","2",
    "1","5",".","3","3","6","1"," ","0","0","0","4","5","6","6"," "," ","9",
    "5",".","7","7","4","5"," "," "," ","7",".","6","5","6","8"," ","1","5",
    ".","5","0","9","2","6","5","6","7","4","5","0","4","1","3" >>

\* length of one line of a two-line element set (fixed-column format)
LineLen == Len(ISS_A_LINE1)

(***************************************************************************)
(* Request parameter values.  A query-string value is absent (None), a     *)
(* number, text that is not a number, or the empty string.                 *)
(***************************************************************************)
None == "None"
NoneP == [kind |-> "none", num |-> 0]
Text == [kind |-> "text", num |-> 0]
\* the empty string: a value that is given, is not a number and is falsy
Empty == [kind |-> "empty", num |-> 0]
NoText == << >>

Num(n) == [kind |-> "num", num |-> n]

\* the Julian Date of the datetime d minutes after datetime.min
JD(d) == (DatetimeMinJD + d) * Minute

(***************************************************************************)
(* The repository: rows of the satellites and tle tables (models.py)       *)
(***************************************************************************)
\* the objects were added in the order of their ids
Sat(id, number, name) ==
    [id |-> id, sat_number |-> number, sat_name |-> name, date_added |-> id]

\* line k of the stored element set id: the handlers never look into a
\* stored line, so it is the line number and the label of its row
StoredLine(k, id) == <<k, " ", ToString(id)>>

Tle(id, sat, collected, epoch, supplemental, source) ==
    [id |-> id, sat_id |-> sat, date_collected |-> collected * Minute,
     tle_line1 |-> StoredLine("1", id), tle_line2 |-> StoredLine("2", id),
     is_supplemental |-> supplemental, data_source |-> source,
     epoch |-> epoch * Minute]

NoSat == Sat(0, None, None)
NoTle == Tle(0, 0, 0, 0, FALSE, None)

\* two objects share the name STARLINK-31000, and the catalog number 59582
\* has a row for each of its two names (test_integration.py:690-698,
\* 734-742); STARLINK-1007 has no element sets, and none were collected
\* under the first name of 59582
SatelliteRows ==
    << Sat(1, "25544", "ISS (ZARYA)"),
       Sat(2, "59582", "STARLINK-31000"),
       Sat(3, "59583", "STARLINK-31000"),
       Sat(4, "44713", "STARLINK-1007"),
       Sat(5, "59582", "TBA - TO BE ASSIGNED") >>

\* collection time and epoch are in minutes since datetime.min
TleRows ==
    << Tle(1, 1, 11, 10, FALSE, "spacetrack"),
       Tle(2, 1, 26, 20, TRUE, "spacetrack"),
       Tle(3, 1, 23, 20, FALSE, "celestrak"),
       Tle(4, 2, 15, 14, TRUE, "celestrak"),
       Tle(5, 3, 19, 18, TRUE, "spacetrack"),
       Tle(6, 3, 13, 12, FALSE, "celestrak") >>

Reverse(s) == [i \in 1..Len(s) |-> s[Len(s) + 1 - i]]

Rotate(s) == [i \in 1..Len(s) |-> s[(i % Len(s)) + 1]]

\* the orders in which the snapshot may hold (and return) the rows
TleSnapshots ==
    { TleRows, Reverse(TleRows), Rotate(Rotate(TleRows)),
      Reverse(Rotate(Rotate(Rotate(TleRows)))) }

(***************************************************************************)
(* Library conversions used by the handlers                                *)
(***************************************************************************)
Abs(x) == IF x < 0 THEN 0 - x ELSE x

Range(s) == {s[i] : i \in 1..Len(s)}

\* str.upper() on the names of the model
Upper(s) ==
    CASE s = "iss (zarya)" -> "ISS (ZARYA)"
      [] s = "test_sat123" -> "TEST_SAT123"
      [] OTHER -> s

\* Time.to_datetime(): a datetime cannot represent an instant before
\* datetime.min (year 1) or after datetime.max (year 9999), the conversion
\* raises ValueError there
to_datetime(t) ==
    [ok |-> t >= DatetimeMinJD * Minute /\ t <= DatetimeMaxJD * Minute,
     dt |-> t - DatetimeMinJD * Minute]

\* float(x) of a query-string value: ValueError when it is not a number
IsFloat(v) == v.kind = "num"

(***************************************************************************)
(* Time Grid Generator (core.utils.jd_arange, spec 4.1)                    *)
(***************************************************************************)
\* the samples from a to b, both included, every dr
Arange(a, b, dr) ==
    IF dr <= 0 \/ b < a
    THEN [error |-> "InvalidRangeError", jd |-> << >>]
    ELSE [error |-> None,
          jd |-> [i \in 1..((b - a) \div dr + 1) |-> a + (i - 1) * dr]]

\* the arguments are evaluated once, and the grid is built from their values
jd_arange(a, b, dr) ==
    CHOOSE grid \in { Arange(x, y, d) : x \in {a}, y \in {b}, d \in {dr} } :
        TRUE

(***************************************************************************)
(* Element-Set Resolver (core.database.tle_access.get_tle, spec 4.2)       *)
(***************************************************************************)
\* the target time handed to the resolver
Target(dt) == [sentinel |-> FALSE, dt |-> dt]
UseEpoch == [sentinel |-> TRUE, dt |-> 0]

\* the join made on the name of the object instead of its id
SatOf_ByName(sats, row) ==
    IF \E i \in 1..Len(sats) : sats[i].id = row.sat_id
    THEN LET own == sats[CHOOSE i \in 1..Len(sats) : sats[i].id = row.sat_id]
         IN  sats[CHOOSE i \in 1..Len(sats) :
                    /\ sats[i].sat_name = own.sat_name
                    /\ \A j \in 1..(i - 1) : sats[j].sat_name # own.sat_name]
    ELSE NoSat

\* the owning object of an element set (tle.sat_id -> satellites.id)
SatOf(sats, row) ==
    IF \E i \in 1..Len(sats) : sats[i].id = row.sat_id
    THEN sats[CHOOSE i \in 1..Len(sats) : sats[i].id = row.sat_id]
    ELSE NoSat

\* step 1: the rows of the identified object(s)
Identified(sat, identifier, use_catalog_number) ==
    IF use_catalog_number
    THEN sat.sat_number = identifier
    ELSE Upper(sat.sat_name) = Upper(identifier)

find_element_sets(sats, rows, identifier, use_catalog_number) ==
    SelectSeq(rows, LAMBDA row :
        Identified(SatOf(sats, row), identifier, use_catalog_number))

\* step 2: keep only the preferred source
FilterSource(cands, data_source) ==
    IF data_source = None THEN cands
    ELSE SelectSeq(cands, LAMBDA row : row.data_source = data_source)

\* steps 3 and 4: a is strictly preferred to b
Preferred(a, b, date) ==
    IF date.sentinel
    THEN \/ a.date_collected > b.date_collected
         \/ /\ a.date_collected = b.date_collected
            /\ ~a.is_supplemental /\ b.is_supplemental
    ELSE \/ Abs(a.epoch - date.dt) < Abs(b.epoch - date.dt)
         \/ /\ Abs(a.epoch - date.dt) = Abs(b.epoch - date.dt)
            /\ ~a.is_supplemental /\ b.is_supplemental

\* the first candidate, in repository order, that no other is preferred to
Select(cands, date) ==
    cands[CHOOSE i \in 1..Len(cands) :
            /\ \A j \in 1..Len(cands) : ~Preferred(cands[j], cands[i], date)
            /\ \A k \in 1..(i - 1) :
                 \E j \in 1..Len(cands) : Preferred(cands[j], cands[k], date)]

Resolution(sats, rows, identifier, use_catalog_number, data_source, date) ==
    LET cands == FilterSource(
                   find_element_sets(sats, rows, identifier, use_catalog_number),
                   data_source)
    IN  IF cands = << >>
        THEN [found |-> FALSE, tle |-> NoTle, sat |-> NoSat]
        ELSE LET row == Select(cands, date)
             IN  [found |-> TRUE, tle |-> row, sat |-> SatOf(sats, row)]

\* the arguments are evaluated once, and the selection is made on their values
get_tle(sats, rows, identifier, use_catalog_number, data_source, date) ==
    CHOOSE sel \in { Resolution(sats, rows, i, use_catalog_number, s, d) :
                       i \in {identifier}, s \in {data_source}, d \in {date} } :
        TRUE

\* the oldest row dropped by the request
AfterRead_Pruned(rows) == IF rows = << >> THEN rows ELSE Tail(rows)

\* the stored element sets after a handler has run: the handlers only call
\* the query functions get_tle, get_tles, get_ids_for_satelltite_name and
\* get_names_for_satellite_id, and never add, commit or delete
\* (routes.py:144-146, 607-608, 647-648, 702-705)
AfterRead(rows) == rows

\* core.database.satellite_access.get_ids_for_satelltite_name and
\* get_names_for_satellite_id (find_objects_by_name, find_names_by_catalog,
\* spec 6): the satellites rows of that name, of that catalog number
get_ids_for_satelltite_name(sats, satellite_name) ==
    SelectSeq(sats, LAMBDA sat : sat.sat_name = satellite_name)

get_names_for_satellite_id(sats, satellite_id) ==
    SelectSeq(sats, LAMBDA sat : sat.sat_number = satellite_id)

\* an optional datetime argument of get_tles
NoDate == [given |-> FALSE, dt |-> 0]
Date(dt) == [given |-> TRUE, dt |-> dt]

\* core.database.satellite_access.get_tles (find_element_sets_in_range,
\* spec 6): the element sets of the object whose epoch lies in the range
get_tles(sats, rows, satellite_id, id_type, start_date, end_date) ==
    SelectSeq(rows,
              LAMBDA row :
                /\ Identified(SatOf(sats, row), satellite_id,
                              id_type = "catalog")
                /\ start_date.given => row.epoch >= start_date.dt
                /\ end_date.given => row.epoch <= end_date.dt)

(***************************************************************************)
(* Element-Set Parser (core.database.tle_access.parse_tle, spec 4.3)       *)
(***************************************************************************)
DigitVal(c) ==
    CASE c = "0" -> 0 [] c = "1" -> 1 [] c = "2" -> 2 [] c = "3" -> 3
      [] c = "4" -> 4 [] c = "5" -> 5 [] c = "6" -> 6 [] c = "7" -> 7
      [] c = "8" -> 8 [] c = "9" -> 9 [] OTHER -> 0 - 1

\* the contribution of one character to the checksum
CheckVal(c) == IF DigitVal(c) >= 0 THEN DigitVal(c) ELSE IF c = "-" THEN 1 ELSE 0

\* the sum of the contributions of the characters a..b of a line, by halves
RECURSIVE CheckValSum(_, _, _)
CheckValSum(line, a, b) ==
    IF a > b THEN 0
    ELSE IF a = b THEN CheckVal(line[a])
    ELSE CheckValSum(line, a, (a + b) \div 2)
         + CheckValSum(line, (a + b) \div 2 + 1, b)

\* the checksum of the first n characters of a line
CheckSum(line, n) == CheckValSum(line, 1, n) % 10

\* the text of a sequence of characters, for the texts of the model
Str(chars) ==
    CASE chars = ISS_NAME -> "ISS (ZARYA)"
      [] chars = <<"2","5","5","4","4">> -> "25544"
      [] chars = <<"2","5","5","4","5">> -> "25545"
      [] chars = << >> -> None
      [] OTHER -> "?"

\* the positions of the newlines of a text, and its lines
Breaks(text) == {i \in 1..Len(text) : text[i] = NL}

BreakAt(text, k) ==
    IF k = 0 THEN 0
    ELSE IF k > Cardinality(Breaks(text)) THEN Len(text) + 1
    ELSE CHOOSE p \in Breaks(text) :
           Cardinality({q \in Breaks(text) : q < p}) = k - 1

Split(text) ==
    [k \in 1..(Cardinality(Breaks(text)) + 1) |->
        SubSeq(text, BreakAt(text, k - 1) + 1, BreakAt(text, k) - 1)]

WellFormedLine(line, first) ==
    /\ Len(line) = LineLen
    /\ line[1] = first
    /\ line[2] = " "
    /\ \A i \in 3..7 : DigitVal(line[i]) >= 0
    /\ DigitVal(line[LineLen]) = CheckSum(line, LineLen - 1)

Malformed == [ok |-> FALSE, tle_line1 |-> << >>, tle_line2 |-> << >>,
              date_collected |-> 0, name |-> None, catalog |-> None]

\* the element set of the lines of a text: like the ElementSet of spec 3 it
\* keeps the two fixed-format text lines as they are in the text
ParseLines(lines) ==
    LET n == Len(lines)
    IN  IF n # 2 /\ n # 3 THEN Malformed
        ELSE LET l1 == lines[n - 1]
                 l2 == lines[n]
             IN  IF /\ WellFormedLine(l1, "1")
                    /\ WellFormedLine(l2, "2")
                    /\ SubSeq(l1, 3, 7) = SubSeq(l2, 3, 7)
                 THEN [ok |-> TRUE, tle_line1 |-> l1, tle_line2 |-> l2,
                       date_collected |-> CurrentTime * Minute,
                       name |-> IF n = 3 THEN Str(lines[1]) ELSE None,
                       catalog |-> Str(SubSeq(l1, 3, 7))]
                 ELSE Malformed

\* the text is split into its lines once, and the lines are parsed
parse_tle(text) ==
    CHOOSE user \in { ParseLines(lines) :
                        lines \in { Split(t) : t \in {text} } } : TRUE

(***************************************************************************)
(* Propagation and result assembly                                         *)
(* (core.database.tle_access.propagate_and_create_json_results, spec 4.6)  *)
(***************************************************************************)
\* the element set whose orbit decays, and the time from which its
\* propagation diverges (spec 4.4)
DecayingRow == 4
DecayJD == JD(18)

Diverges(tle_line1, t) ==
    tle_line1 = StoredLine("1", DecayingRow) /\ t >= DecayJD

\* the altitude of the object above the observer's horizon at the time t,
\* in degrees
Altitude(tle_line1, t) == (((t % 181) * 37) % 181) - 90

\* the samples of the grid whose propagation fails
Failing(jd, tle_line1) == {i \in 1..Len(jd) : Diverges(tle_line1, jd[i])}

\* the samples propagated: all of them, or those up to the first failure
Attempted(jd, tle_line1) ==
    IF Failing(jd, tle_line1) = { } THEN Len(jd)
    ELSE CHOOSE i \in Failing(jd, tle_line1) :
           \A j \in Failing(jd, tle_line1) : i <= j

\* the batch of records, or the failure of the first sample that diverges
Results(jd, tle_line1, date_collected, name, catalog_id, data_source) ==
    IF Failing(jd, tle_line1) # { }
    THEN [error |-> "PropagationError", body |-> << >>]
    ELSE [error |-> None,
          body |-> [i \in 1..Len(jd) |->
                      [NAME |-> name, CATALOG_ID |-> catalog_id,
                       DATA_SOURCE |-> data_source,
                       TLE_DATE |-> date_collected, JULIAN_DATE |-> jd[i],
                       ALTITUDE_DEG |-> Altitude(tle_line1, jd[i])]]]

\* the arguments are evaluated once, and the records are built from their
\* values.  min_altitude and max_altitude arrive as the handlers pass them
\* (routes.py:154-155); spec 4.6 gives them no effect on the batch, so the
\* records are those of spec 4.6, one for each sample
propagate_and_create_json_results(location, jd, tle_line1, tle_line2, date_collected, name, min_altitude, max_altitude, catalog_id, data_source) ==
    CHOOSE result \in { Results(t, l, d, n, c, s) :
                          t \in {jd}, l \in {tle_line1}, d \in {date_collected},
                          n \in {name}, c \in {catalog_id}, s \in {data_source} } :
        TRUE

(***************************************************************************)
(* Requests                                                                *)
(***************************************************************************)
Endpoints == {"name", "name-jdstep", "catalog-number", "catalog-number-jdstep",
              "tle", "tle-jdstep"}

Request(endpoint) ==
    [endpoint |-> endpoint, name |-> None, catalog |-> None, tle |-> NoText,
     latitude |-> Num(32), longitude |-> Num(0 - 110), elevation |-> Num(150),
     julian_date |-> NoneP, startjd |-> NoneP, stopjd |-> NoneP,
     stepjd |-> NoneP, min_altitude |-> NoneP, max_altitude |-> NoneP,
     data_source |-> None,
     id |-> None, id_type |-> None, start_date_jd |-> NoneP,
     end_date_jd |-> NoneP]

TleText(name, l1, l2) == name \o <<NL>> \o l1 \o <<NL>> \o l2

\* the line with its last character (the checksum column) replaced
WithLast(line, c) == [line EXCEPT ![Len(line)] = c]

\* the line with the last digit of its catalog number replaced
WithCatalog(line, c) == [line EXCEPT ![7] = c]

Names == {"ISS (ZARYA)", "iss (zarya)", "STARLINK-31000", "STARLINK-1007",
          "test_sat123"}
Catalogs == {"25544", "59582", "59583", "44713", "1"}
Sources == {None, "celestrak", "spacetrack"}

GoodTexts ==
    { TleText(ISS_NAME, ISS_A_LINE1, ISS_A_LINE2),
      TleText(ISS_NAME, ISS_B_LINE1, ISS_B_LINE2),
      ISS_A_LINE1 \o <<NL>> \o ISS_A_LINE2 }

BadTexts ==
    { \* test_errors.py:33-44, a truncated line
      TleText(ISS_NAME, SubSeq(ISS_A_LINE1, 1, 52), ISS_A_LINE2),
      TleText(ISS_NAME, ISS_A_LINE1, SubSeq(ISS_A_LINE2, 1, 60)),
      \* lines in the wrong order, a missing line
      TleText(ISS_NAME, ISS_A_LINE2, ISS_A_LINE1),
      ISS_NAME \o <<NL>> \o ISS_A_LINE1,
      \* a wrong checksum character, different catalog numbers
      TleText(ISS_NAME, WithLast(ISS_A_LINE1, "8"), ISS_A_LINE2),
      TleText(ISS_NAME, ISS_A_LINE1, WithLast(ISS_A_LINE2, "U")),
      TleText(ISS_NAME, ISS_A_LINE1,
              WithLast(WithCatalog(ISS_A_LINE2, "5"), "6")) }

Texts == GoodTexts \cup BadTexts

\* the pairs of lines of the valid element sets
ValidLines == {<<ISS_A_LINE1, ISS_A_LINE2>>, <<ISS_B_LINE1, ISS_B_LINE2>>}

\* characters put in the checksum column
CheckChars == {"0", "1", "2", "3", "4", "5", "6", "7", "8", "9",
               " ", "-", "+", ".", "U"}

\* the valid element texts with the checksum character of line 1 or of
\* line 2 replaced by a different character
ChecksumTexts ==
    { TleText(ISS_NAME, WithLast(v[1], c), v[2]) :
        v \in ValidLines, c \in CheckChars } 
    \cup { TleText(ISS_NAME, v[1], WithLast(v[2], c)) :
        v \in ValidLines, c \in CheckChars }

\* the first instant after datetime.max
Beyond == (DatetimeMaxJD + 1) * Minute

\* julian_date values: the sentinel 0, times around the stored epochs, a
\* time after datetime.max, text
JulianDates == {Num(0), Num(JD(12)), Num(JD(13)), Num(JD(15)), Num(JD(16)),
                Num(JD(22)), Num(Beyond), Text}

Starts == {0, JD(12), JD(15), JD(16)}
\* start, stop - start (in minutes) and step of the time grids
Spans == {0 - 1, 0, 1, 3, 4}
Steps == {NoneP, Num(0 - Minute), Num(0), Num(Minute), Num(3 * Minute)}

\* grids of 1000 and of 1001 samples: with a step of one minute, and with
\* the default step, whose last sample falls just after a stop that is a
\* whole number of two minutes away and is left out
LongGrids ==
    { <<JD(15), JD(15) + d * Minute, Num(Minute)>> :
        d \in {MaxResults - 1, MaxResults} }
    \cup { <<JD(15), JD(15) + d * Minute, NoneP>> :
        d \in {2 * MaxResults, 2 * MaxResults + 2} }

Grids ==
    { <<a, a + d * Minute, s>> : a \in Starts, d \in Spans, s \in Steps }
    \cup LongGrids

WithGrid(req, g) ==
    [req EXCEPT !.startjd = Num(g[1]), !.stopjd = Num(g[2]), !.stepjd = g[3]]

ByName ==
    { [Request("name") EXCEPT !.name = n, !.data_source = s, !.julian_date = t] :
        n \in Names, s \in Sources, t \in JulianDates }

ByCatalog ==
    { [Request("catalog-number") EXCEPT
          !.catalog = c, !.data_source = s, !.julian_date = t] :
        c \in Catalogs, s \in Sources, t \in JulianDates }

ByTle ==
    { [Request("tle") EXCEPT !.tle = x, !.data_source = s, !.julian_date = t] :
        x \in Texts, s \in {None, "celestrak"},
        t \in {Num(0), Num(JD(15)), Text} }

ByNameStep ==
    { WithGrid([Request("name-jdstep") EXCEPT !.name = n, !.data_source = s], g) :
        n \in Names, s \in Sources, g \in Grids }

ByCatalogStep ==
    { WithGrid([Request("catalog-number-jdstep") EXCEPT
                   !.catalog = c, !.data_source = s], g) :
        c \in Catalogs, s \in Sources, g \in Grids }

ByTleStep ==
    { WithGrid([Request("tle-jdstep") EXCEPT !.tle = x], g) :
        x \in Texts, g \in Grids }

\* element texts with every checksum character, at one instant and on a grid
ByChecksum ==
    { [Request("tle") EXCEPT !.tle = x, !.julian_date = Num(JD(15))] :
        x \in ChecksumTexts }
    \cup { WithGrid([Request("tle-jdstep") EXCEPT !.tle = x],
                    <<JD(15), JD(16), Num(Minute)>>) : x \in ChecksumTexts }

\* a start, stop or step that is not a number, a step that is the empty
\* string, a grid that starts after datetime.max
NotANumber ==
    { [Request(e) EXCEPT !.name = "ISS (ZARYA)", !.catalog = "25544",
          !.tle = TleText(ISS_NAME, ISS_A_LINE1, ISS_A_LINE2),
          !.startjd = a, !.stopjd = b, !.stepjd = s] :
        e \in {"name-jdstep", "catalog-number-jdstep", "tle-jdstep"},
        a \in {Text, Num(JD(15))}, b \in {Text, Num(JD(16))},
        s \in {Text, Empty, Num(Minute)} }
    \cup { WithGrid([Request(e) EXCEPT !.name = "ISS (ZARYA)",
                       !.catalog = "25544",
                       !.tle = TleText(ISS_NAME, ISS_A_LINE1, ISS_A_LINE2)],
                    <<Beyond, Beyond + Minute, Num(Minute)>>) :
        e \in {"name-jdstep", "catalog-number-jdstep", "tle-jdstep"} }

\* complete requests, one for each endpoint, and the same with one parameter
\* left out
Complete(e) ==
    [Request(e) EXCEPT !.name = "ISS (ZARYA)", !.catalog = "25544",
        !.tle = TleText(ISS_NAME, ISS_A_LINE1, ISS_A_LINE2),
        !.julian_date = Num(JD(15)), !.startjd = Num(JD(15)),
        !.stopjd = Num(JD(16)), !.stepjd = Num(Minute)]

\* min_altitude and max_altitude: the values of the tests, a half-open
\* range, an empty range
Altitudes == { <<Num(0 - 90), Num(80)>>, <<Num(0), NoneP>>, <<Num(0), Num(90)>>,
               <<NoneP, Num(10)>>, <<Num(50), Num(10)>> }

WithAltitude(req, a) ==
    [req EXCEPT !.min_altitude = a[1], !.max_altitude = a[2]]

ByAltitude ==
    { WithAltitude([Complete(e) EXCEPT !.julian_date = t], a) :
        e \in {"name", "catalog-number", "tle"},
        t \in {Num(JD(12)), Num(JD(15))}, a \in Altitudes }
    \cup { WithAltitude(WithGrid(Complete(e), <<JD(12), JD(16), Num(Minute)>>), a) :
        e \in {"name-jdstep", "catalog-number-jdstep", "tle-jdstep"},
        a \in Altitudes }

Without(req, q) ==
    CASE q \in {"name", "catalog"} -> [req EXCEPT ![q] = None]
      [] q = "tle" -> [req EXCEPT !.tle = NoText]
      [] OTHER -> [req EXCEPT ![q] = NoneP]

Incomplete ==
    { Without(Complete(e), q) :
        e \in Endpoints,
        q \in {"name", "catalog", "tle", "latitude", "longitude", "elevation",
               "julian_date", "startjd", "stopjd"} }
    \cup { Without(Without(Complete(e), p), q) :
        e \in Endpoints, p \in {"tle", "latitude"},
        q \in {"latitude", "longitude", "elevation", "julian_date",
               "startjd", "stopjd"} }

\* requests to /tools/get-tle-data/: identifiers of both kinds, known and
\* unknown, every id_type, and date ranges around the stored epochs
ToolIds == {None, "25544", "59582", "1", "ISS (ZARYA)"}
IdTypes == {None, "catalog", "name", "norad"}

TleDataRequests ==
    { [Request("get-tle-data") EXCEPT !.id = i, !.id_type = k,
          !.start_date_jd = a, !.end_date_jd = b] :
        i \in ToolIds, k \in IdTypes,
        a \in {NoneP, Empty, Num(JD(12)), Text},
        b \in {NoneP, Num(JD(19)), Num(0), Num(Beyond)} }

\* requests to the two name and catalog number lookups
LookupRequests ==
    { [Request("norad-ids-from-name") EXCEPT !.name = n] :
        n \in Names \cup {None, "STARLINK-11300"} }
    \cup { [Request("names-from-norad-id") EXCEPT !.id = i] : i \in ToolIds }

Requests ==
    TleDataRequests \cup LookupRequests \cup ByName \cup ByCatalog \cup ByTle \cup ByNameStep \cup ByCatalogStep
    \cup ByTleStep \cup NotANumber \cup Incomplete \cup ByChecksum
    \cup ByAltitude

(***************************************************************************)
(* The handlers of routes.py                                               *)
(***************************************************************************)
IsStep(endpoint) ==
    endpoint \in {"name-jdstep", "catalog-number-jdstep", "tle-jdstep"}

UsesTle(endpoint) == endpoint \in {"tle", "tle-jdstep"}

\* the second argument of get_tle (routes.py:145, 236, 315, 408)
use_catalog_number(endpoint) ==
    endpoint \in {"catalog-number", "catalog-number-jdstep"}

\* the parameters a handler extracts from the request
\* (routes.py:120, 204, 290, 374, 460, 538)
Extracted(endpoint) ==
    {"latitude", "longitude", "elevation", "min_altitude", "max_altitude"}
    \cup (IF IsStep(endpoint) THEN {"startjd", "stopjd", "stepjd"}
          ELSE {"julian_date"})
    \cup (IF UsesTle(endpoint) THEN {"tle"}
          ELSE IF use_catalog_number(endpoint) THEN {"catalog", "data_source"}
          ELSE {"name", "data_source"})

\* the time of the request not required
Required_NoTime(endpoint) ==
    {"latitude", "longitude", "elevation"}
    \cup (IF UsesTle(endpoint) THEN {"tle"}
          ELSE IF use_catalog_number(endpoint) THEN {"catalog"}
          ELSE {"name"})

\* the parameters a handler requires (routes.py:134, 220, 304, 390, 473, 553)
Required(endpoint) ==
    {"latitude", "longitude", "elevation"}
    \cup (IF IsStep(endpoint) THEN {"startjd", "stopjd"} ELSE {"julian_date"})
    \cup (IF UsesTle(endpoint) THEN {"tle"}
          ELSE IF use_catalog_number(endpoint) THEN {"catalog"}
          ELSE {"name"})

Absent(req, q) ==
    CASE q \in {"name", "catalog", "data_source"} -> req[q] = None
      [] q = "tle" -> req.tle = NoText
      [] OTHER -> req[q].kind = "none"

\* core.utils.extract_parameters: request.args.get of each listed parameter
extract_parameters(req, list) ==
    [q \in DOMAIN req |->
        IF q = "endpoint" \/ q \in list THEN req[q]
        ELSE Request(req.endpoint)[q]]

\* the data source of a request that gives none
\* (test_integration.py:108-118: no data_source, DATA_SOURCE "spacetrack")
DefaultSource == "spacetrack"

\* the dictionary validate_parameters returns: the parameters extracted,
\* with the observer's location, and with the default data source when the
\* handler extracted data_source and the request gave none
Normalized(parameters) ==
    [q \in DOMAIN parameters \cup {"location"} |->
        IF q = "location"
        THEN <<parameters.latitude, parameters.longitude, parameters.elevation>>
        ELSE IF /\ q = "data_source"
                /\ ~UsesTle(parameters.endpoint)
                /\ parameters.data_source = None
        THEN DefaultSource
        ELSE parameters[q]]

\* core.utils.validate_parameters: abort(400) unless every required
\* parameter is present; the dictionary it returns is the one the handler
\* goes on with (routes.py:134 "parameters = validate_parameters(...)")
validate_parameters(parameters, required) ==
    [ok |-> \A q \in required : ~Absent(parameters, q),
     parameters |-> Normalized(parameters)]

\* a step of 0 taken for an absent step
StepOf_Falsy(parameters) ==
    IF parameters.stepjd.kind = "none" \/ parameters.stepjd.num = 0
    THEN DefaultStep
    ELSE parameters.stepjd.num

\* the step parameter ignored
StepOf_Ignored(parameters) == DefaultStep

\* routes.py:228 "default to 2 min"
StepOf(parameters) ==
    IF parameters.stepjd.kind = "none" THEN DefaultStep
    ELSE parameters.stepjd.num

\* the cap excluded
TooMany_Strict(jd) == Len(jd) >= MaxResults

\* a larger cap
TooMany_Lax(jd) == Len(jd) > 2 * MaxResults

\* routes.py:232 "if len(jd) > 1000"
TooMany(jd) == Len(jd) > MaxResults

\* the first argument of get_tle (routes.py:145, 236, 315, 408)
Identifier(parameters) ==
    IF use_catalog_number(parameters.endpoint) THEN parameters.catalog
    ELSE parameters.name

\* the data source not handed on
SourcePreference_Dropped(parameters) == None

\* the third argument of get_tle (routes.py:145, 236, 315, 408)
SourcePreference(parameters) == parameters.data_source

\* the last sample of the grid instead of the first
TargetSample_Last(jd) == jd[Len(jd)]

\* the sample whose datetime is the target time of get_tle
\* (routes.py:145 "jd.to_datetime()", 236 "jd[0].to_datetime()")
TargetSample(jd) == jd[1]

\* only the first sample handed on
SamplesArg_First(jd) == <<jd[1]>>

\* the grid handed on in reverse order
SamplesArg_Reversed(jd) == Reverse(jd)

\* the samples handed to the result assembler: [jd] of a single-instant
\* request, the whole grid of a start/stop/step request (routes.py:149, 240)
SamplesArg(jd) == jd


\* the two lines handed to the result assembler
\* (routes.py:150-151, 486-487)
Line1Arg(parameters, sel, user) ==
    IF UsesTle(parameters.endpoint) THEN user.tle_line1 ELSE sel.tle.tle_line1

Line2Arg(parameters, sel, user) ==
    IF UsesTle(parameters.endpoint) THEN user.tle_line2 ELSE sel.tle.tle_line2

\* the name, catalog id and data source handed to the result assembler
\* (routes.py:153-157, 324-328, 490-494)
RecordName(parameters, sel, user) ==
    IF UsesTle(parameters.endpoint) THEN user.name
    ELSE IF use_catalog_number(parameters.endpoint) THEN sel.sat.sat_name
    ELSE parameters.name

RecordCatalog(parameters, sel, user) ==
    IF UsesTle(parameters.endpoint) THEN user.catalog ELSE sel.sat.sat_number

\* the data_source parameter handed on by every handler
RecordSource_Preference(parameters) == parameters.data_source

\* the default data source handed on, whatever the request prefers
RecordSource_Default(parameters) ==
    IF UsesTle(parameters.endpoint) THEN "user" ELSE DefaultSource

RecordSource(parameters) ==
    IF UsesTle(parameters.endpoint) THEN "user" ELSE parameters.data_source

RecordDate(parameters, sel, user) ==
    IF UsesTle(parameters.endpoint) THEN user.date_collected
    ELSE sel.tle.date_collected

(***************************************************************************)
(* Responses                                                               *)
(***************************************************************************)
Response(status, error, message, body) ==
    [status |-> status, error |-> error, message |-> message, body |-> body]

NoResponse == Response(0, None, None, << >>)

\* abort(400) and the 400 error handler (routes.py:40-47)
BadRequest ==
    Response(400, "BadRequest",
             "Incorrect parameters or too many results to return", << >>)

\* a request over the rate limit and the 429 error handler
\* (routes.py:50-52)
TooManyRequests ==
    Response(429, "RateLimitExceeded", "You have exceeded your rate limit",
             << >>)

\* the 500 error handler without the description of the error
Abort500_NoDescription(error, message) ==
    Response(500, error, "Internal Server Error", << >>)

\* abort(500, message) and the 500 error handler (routes.py:55-57)
Abort500(error, message) == Response(500, error, message, << >>)

\* an uncaught exception answered as a rejected request
Unhandled_Rejected(error) ==
    Response(400, error, "Incorrect parameters or too many results to return",
             << >>)

\* an exception no handler catches: Flask answers 500
Unhandled(error) == Response(500, error, "Internal Server Error", << >>)

\* abort(400) for an id_type that is neither "catalog" nor "name"
\* (routes.py:684-685): the response of every abort(400)
InvalidIdentifier ==
    Response(400, "InvalidIdentifierError",
             "Incorrect parameters or too many results to return", << >>)

\* an error of the taxonomy raised by the core (InvalidRangeError by
\* jd_arange, spec 4.1; PropagationError by the propagation, spec 4.4):
\* routes.py has no try block around these calls and no handler for the
\* kind, so it ends the request like every uncaught exception, with the
\* answer of the 500 error handler (routes.py:55-57)
Raise(error) == Unhandled(error)

Ok(body) == Response(200, None, None, body)

(***************************************************************************)
(* State                                                                   *)
(***************************************************************************)
VARIABLES
    satellites,  \* the satellites table
    tles,        \* the tle table, in the order the repository returns rows
    pc,          \* the position of each request in its handler
    params,      \* the arguments of the request (request.args)
    jd,          \* the time grid of the request
    tle,         \* the result of get_tle
    user_tle,    \* the result of parse_tle
    response,    \* the response of the request
    reads,       \* repository reads made for the request
    parsed,      \* element texts parsed for the request
    fault,       \* the exception raised by the repository read of a tool
    propagated,  \* samples propagated for the request
    hits         \* requests the rate limiter has counted in its window

vars == <<satellites, tles, pc, params, jd, tle, user_tle, response, reads,
          parsed, fault, propagated, hits>>

db == <<satellites, tles>>

NotFound == [found |-> FALSE, tle |-> NoTle, sat |-> NoSat]

Init ==
    /\ satellites = SatelliteRows
    /\ tles \in TleSnapshots
    /\ pc = [r \in Slots |-> "idle"]
    /\ params = [r \in Slots |-> Request("name")]
    /\ jd = [r \in Slots |-> << >>]
    /\ tle = [r \in Slots |-> NotFound]
    /\ user_tle = [r \in Slots |-> Malformed]
    /\ response = [r \in Slots |-> NoResponse]
    /\ reads = [r \in Slots |-> 0]
    /\ parsed = [r \in Slots |-> 0]
    /\ fault = [r \in Slots |-> "none"]
    /\ propagated = [r \in Slots |-> 0]
    /\ hits = 0

\* the error is recorded and the handler carries on to the propagation
Fail_CarriedOn(r, resp) ==
    /\ response' = [response EXCEPT ![r] = resp]
    /\ pc' = [pc EXCEPT ![r] = IF resp.status = 200 THEN "done"
                               ELSE "propagate"]

\* the request ends with the response resp
Fail(r, resp) ==
    /\ response' = [response EXCEPT ![r] = resp]
    /\ pc' = [pc EXCEPT ![r] = "done"]

Goto(r, label) ==
    /\ pc' = [pc EXCEPT ![r] = label]
    /\ UNCHANGED response

\* a request of reqs arrives at the worker r and passes the rate limiter
\* (@limiter.limit, routes.py:83-85, 162-164, 253-255, 333-335, 425-427,
\* 499-501, 585-587, 627-629, 672-674).  The limiter counts the requests
\* of the client in a window of time; the requests of the model are those
\* of one client, and "expired" tells that the window of the requests
\* counted so far is over when this one arrives.  A request over the limit
\* is answered 429 and its handler is not entered
Arrive(r, reqs) ==
    /\ pc[r] = "idle"
    /\ \E expired \in BOOLEAN :
         LET counted == IF expired THEN 0 ELSE hits
         IN  IF counted < RateLimit
             THEN /\ \E req \in reqs : params' = [params EXCEPT ![r] = req]
                  /\ hits' = counted + 1
                  /\ Goto(r, "validate")
             ELSE /\ pc' = [pc EXCEPT ![r] = "refused"]
                  /\ response' = [response EXCEPT ![r] = TooManyRequests]
                  /\ UNCHANGED <<params, hits>>
    /\ UNCHANGED <<db, fault, jd, tle, user_tle, reads, parsed, propagated>>

\* extract_parameters, then validate_parameters, applied to the arguments
\* of a request (routes.py:120-136, 204-222, 290-306, 374-392, 460-475,
\* 538-555)
Validated(req) ==
    CHOOSE validated \in
        { validate_parameters(parameters, Required(req.endpoint)) :
            parameters \in {extract_parameters(req, Extracted(req.endpoint))} } :
        TRUE

\* the arguments of the request of the first worker read by every worker
Parameters_Shared(r) == Validated(params[1]).parameters

\* the parameters dictionary of the handler from validation on: the
\* dictionary validate_parameters returned (routes.py:134, 220, 304, 390,
\* 473, 553)
Parameters(r) == Validated(params[r]).parameters

\* extract_parameters and validate_parameters
Validate(r) ==
    /\ pc[r] = "validate"
    /\ params[r].endpoint \in Endpoints
    /\ LET endpoint == params[r].endpoint
           validated == Validated(params[r])
       IN  IF UsesTle(endpoint) /\ Absent(params[r], "tle")
           THEN Fail(r, Unhandled("AttributeError"))
           ELSE IF ~validated.ok
           THEN Fail(r, BadRequest)
           ELSE Goto(r, "time")
    /\ UNCHANGED <<db, hits, fault, params, jd, tle, user_tle, reads, parsed, propagated>>

\* the absent name tested before it is used
NameArg_Checked(name) == BadRequest

\* request.args.get("name").upper() (routes.py:602): None has no upper(),
\* the AttributeError is raised before the test "satellite_name is None"
NameArg(name) == Unhandled("AttributeError")

\* an absent id_type let through
ValidIdType_AbsentOk(id_type) == id_type \in {"catalog", "name", None}

\* routes.py:684 "if id_type != "catalog" and id_type != "name""
ValidIdType(id_type) == id_type \in {"catalog", "name"}

\* Time(start_date, format="jd", scale="ut1").to_datetime() if start_date
\* else None (routes.py:687-700): an absent value and the empty string are
\* falsy and stand for no date, any other text is handed to Time
DateArg(v) ==
    IF v.kind \in {"none", "empty"} THEN [ok |-> TRUE, date |-> NoDate]
    ELSE IF ~IsFloat(v) THEN [ok |-> FALSE, date |-> NoDate]
    ELSE [ok |-> to_datetime(v.num).ok, date |-> Date(to_datetime(v.num).dt)]

\* the outcomes of a repository read: it returns, or it raises
Faults == {"none", "DataError", "OperationalError"}

\* the record of one element set (routes.py:706-716)
TleData(sats, row) ==
    [satellite_name |-> SatOf(sats, row).sat_name,
     satellite_id |-> SatOf(sats, row).sat_number,
     tle_line1 |-> row.tle_line1, tle_line2 |-> row.tle_line2,
     epoch |-> row.epoch, date_collected |-> row.date_collected]

\* only the first row listed
Listed_First(rows) == IF rows = << >> THEN rows ELSE << rows[1] >>

\* the rows the list comprehensions of the tool handlers go through
\* (routes.py:609-616, 649-656, 707-717): every row the repository
\* returned, in the order of the rows
Listed(rows) == rows

\* a tool request ends without a repository read
Reject(r, resp) ==
    /\ Fail(r, resp)
    /\ UNCHANGED <<reads, fault>>

\* a repository read of a tool handler: it returns, or it raises f
Read(r, f) ==
    /\ reads' = [reads EXCEPT ![r] = @ + 1]
    /\ fault' = [fault EXCEPT ![r] = f]

\* "return None" in a view function: Flask raises TypeError, the view
\* did not return a valid response (routes.py:623, 668, 724)
ReturnedNone == Unhandled("TypeError")

\* the handler of /tools/get-tle-data/ (routes.py:675-724)
GetTleData(r) ==
    /\ pc[r] = "validate"
    /\ params[r].endpoint = "get-tle-data"
    /\ LET satellite_id == params[r].id
           id_type == params[r].id_type
           start_date == DateArg(params[r].start_date_jd)
           end_date == DateArg(params[r].end_date_jd)
       IN  IF satellite_id = None
           THEN Reject(r, BadRequest)
           ELSE IF ~ValidIdType(id_type)
           THEN Reject(r, InvalidIdentifier)
           ELSE IF ~start_date.ok \/ ~end_date.ok
           THEN Reject(r, Unhandled("ValueError"))
           ELSE \E f \in Faults :
                  /\ Read(r, f)
                  /\ IF f = "none"
                     THEN LET tle_data == get_tles(satellites, tles,
                                                   satellite_id, id_type,
                                                   start_date.date,
                                                   end_date.date)
                              listed == Listed(tle_data)
                          IN  Fail(r, Ok([i \in 1..Len(listed) |->
                                            TleData(satellites, listed[i])]))
                     ELSE IF f = "DataError"
                     THEN Fail(r, Abort500("DataError", "No TLE found"))
                     ELSE Fail(r, ReturnedNone)
    /\ tles' = AfterRead(tles)
    /\ UNCHANGED <<satellites, hits, params, jd, tle, user_tle, parsed, propagated>>

\* the handler of /tools/norad-ids-from-name/ (routes.py:588-623)
GetNoradIdsFromName(r) ==
    /\ pc[r] = "validate"
    /\ params[r].endpoint = "norad-ids-from-name"
    /\ IF params[r].name = None
       THEN Reject(r, NameArg(params[r].name))
       ELSE LET satellite_name == Upper(params[r].name)
            IN  \E f \in Faults :
                  /\ Read(r, f)
                  /\ IF f = "none"
                     THEN LET rows == get_ids_for_satelltite_name(
                                        satellites, satellite_name)
                              listed == Listed(rows)
                          IN  Fail(r, Ok([i \in 1..Len(listed) |->
                                            [name |-> satellite_name,
                                             norad_id |-> listed[i].sat_number,
                                             date_added |-> listed[i].date_added]]))
                     ELSE Fail(r, ReturnedNone)
    /\ tles' = AfterRead(tles)
    /\ UNCHANGED <<satellites, hits, params, jd, tle, user_tle, parsed, propagated>>

\* the handler of /tools/names-from-norad-id/ (routes.py:630-668)
GetNamesFromNoradId(r) ==
    /\ pc[r] = "validate"
    /\ params[r].endpoint = "names-from-norad-id"
    /\ LET satellite_id == params[r].id
       IN  IF satellite_id = None
           THEN Reject(r, BadRequest)
           ELSE \E f \in Faults :
                  /\ Read(r, f)
                  /\ IF f = "none"
                     THEN LET rows == get_names_for_satellite_id(
                                        satellites, satellite_id)
                              listed == Listed(rows)
                          IN  Fail(r, Ok([i \in 1..Len(listed) |->
                                            [name |-> listed[i].sat_name,
                                             norad_id |-> satellite_id,
                                             date_added |-> listed[i].date_added]]))
                     ELSE Fail(r, ReturnedNone)
    /\ tles' = AfterRead(tles)
    /\ UNCHANGED <<satellites, hits, params, jd, tle, user_tle, parsed, propagated>>

\* the time of a single-instant request (routes.py:138-142),
\* the time grid of a start/stop/step request (routes.py:224-233)
TimeGrid(r) ==
    /\ pc[r] = "time"
    /\ LET parameters == Parameters(r)
       IN  IF ~IsStep(parameters.endpoint)
           THEN IF parameters.julian_date.kind = "num"
                THEN /\ jd' = [jd EXCEPT ![r] = <<parameters.julian_date.num>>]
                     /\ Goto(r, "resolve")
                ELSE /\ Fail(r, Abort500("InvalidJD", "Invalid Julian Date"))
                     /\ UNCHANGED jd
           ELSE IF \/ ~IsFloat(parameters.startjd)
                   \/ ~IsFloat(parameters.stopjd)
                   \/ /\ parameters.stepjd.kind # "none"
                      /\ ~IsFloat(parameters.stepjd)
                THEN /\ Fail(r, Unhandled("ValueError"))
                     /\ UNCHANGED jd
                ELSE LET grid == jd_arange(parameters.startjd.num,
                                           parameters.stopjd.num,
                                           StepOf(parameters))
                     IN  IF grid.error # None
                         THEN /\ Fail(r, Raise(grid.error))
                              /\ UNCHANGED jd
                         ELSE /\ jd' = [jd EXCEPT ![r] = grid.jd]
                              /\ IF TooMany(grid.jd)
                                 THEN Fail(r, BadRequest)
                                 ELSE Goto(r, "resolve")
    /\ UNCHANGED <<db, hits, fault, params, tle, user_tle, reads, parsed, propagated>>

\* a read of the repository for every sample of the grid
Lookups_PerSample(grid) == Len(grid)

\* the calls of get_tle a handler makes for a time grid: one, outside
\* any loop, whatever the number of samples (routes.py:144-146, 235-237,
\* 314-319, 407-409)
Lookups(grid) == 1

\* get_tle (routes.py:144, 235, 314, 407) or parse_tle (routes.py:483, 569)
Resolve(r) ==
    /\ pc[r] = "resolve"
    /\ LET parameters == Parameters(r)
       IN  IF UsesTle(parameters.endpoint)
           THEN LET user == parse_tle(parameters.tle)
                IN  /\ parsed' = [parsed EXCEPT ![r] = @ + 1]
                    /\ IF user.ok
                       THEN /\ user_tle' = [user_tle EXCEPT ![r] = user]
                            /\ Goto(r, "propagate")
                       ELSE /\ Fail(r, Abort500("MalformedElementSetError",
                                                "Incorrect TLE format"))
                            /\ UNCHANGED user_tle
                    /\ UNCHANGED <<tle, reads>>
           ELSE LET date == to_datetime(TargetSample(jd[r]))
                IN  /\ IF ~date.ok
                       THEN /\ Fail(r, Unhandled("ValueError"))
                            /\ UNCHANGED <<tle, reads>>
                       ELSE LET sel == get_tle(satellites, tles,
                                               Identifier(parameters),
                                               use_catalog_number(
                                                 parameters.endpoint),
                                               SourcePreference(parameters),
                                               Target(date.dt))
                            IN  /\ reads' = [reads EXCEPT ![r] =
                                                @ + Lookups(jd[r])]
                                /\ IF sel.found
                                   THEN /\ tle' = [tle EXCEPT ![r] = sel]
                                        /\ Goto(r, "propagate")
                                   ELSE /\ Fail(r, Abort500(
                                                "NoElementSetFoundError",
                                                "No TLE found"))
                                        /\ UNCHANGED tle
                    /\ UNCHANGED <<user_tle, parsed>>
    /\ tles' = AfterRead(tles)
    /\ UNCHANGED <<satellites, hits, fault, params, jd, propagated>>

\* propagate_and_create_json_results (routes.py:147, 238, 318, 410, 484, 570)
Propagate(r) ==
    /\ pc[r] = "propagate"
    /\ LET parameters == Parameters(r)
           user == user_tle[r]
           sel == tle[r]
           line1 == Line1Arg(parameters, sel, user)
           result == propagate_and_create_json_results(
                       parameters.location,
                       SamplesArg(jd[r]),
                       line1,
                       Line2Arg(parameters, sel, user),
                       RecordDate(parameters, sel, user),
                       RecordName(parameters, sel, user),
                       parameters.min_altitude, parameters.max_altitude,
                       RecordCatalog(parameters, sel, user),
                       RecordSource(parameters))
       IN  /\ propagated' =
                 [propagated EXCEPT ![r] = Attempted(SamplesArg(jd[r]), line1)]
           /\ IF result.error # None
              THEN Fail(r, Raise(result.error))
              ELSE Fail(r, Ok(result.body))
    /\ UNCHANGED <<db, hits, fault, params, jd, tle, user_tle, reads, parsed>>

\* the response is sent and the request's state is discarded
Finish(r) ==
    /\ pc[r] \in {"done", "refused"}
    /\ pc' = [pc EXCEPT ![r] = "idle"]
    /\ params' = [params EXCEPT ![r] = Request("name")]
    /\ jd' = [jd EXCEPT ![r] = << >>]
    /\ tle' = [tle EXCEPT ![r] = NotFound]
    /\ user_tle' = [user_tle EXCEPT ![r] = Malformed]
    /\ response' = [response EXCEPT ![r] = NoResponse]
    /\ reads' = [reads EXCEPT ![r] = 0]
    /\ parsed' = [parsed EXCEPT ![r] = 0]
    /\ fault' = [fault EXCEPT ![r] = "none"]
    /\ propagated' = [propagated EXCEPT ![r] = 0]
    /\ UNCHANGED <<db, hits>>

\* a request arrives
Receive(r) == Arrive(r, Requests)

\* requests are handled one at a time
Next ==
    \/ Receive(1)
    \/ Validate(1)
    \/ TimeGrid(1)
    \/ Resolve(1)
    \/ Propagate(1)
    \/ GetTleData(1)
    \/ GetNoradIdsFromName(1)
    \/ GetNamesFromNoradId(1)
    \/ Finish(1)

Spec == Init /\ [][Next]_vars

\* a step of the handler of the request of r; the server runs a handler it
\* has entered to its end
Handle(r) ==
    \/ Validate(r)
    \/ TimeGrid(r)
    \/ Resolve(r)
    \/ Propagate(r)
    \/ GetTleData(r)
    \/ GetNoradIdsFromName(r)
    \/ GetNamesFromNoradId(r)

\* requests are handled one at a time, and a handler that was entered and
\* can take a step takes it; no request has to arrive, and no response has
\* to be collected
NextFair == Receive(1) \/ Handle(1) \/ Finish(1)

FairSpec == Init /\ [][NextFair]_vars /\ WF_vars(Handle(1))

\* the requests of the concurrent clients: one complete request for each
\* endpoint, a rejected one, a grid that stops before it starts, an unknown
\* object, a truncated element text, an identifier of an unknown type, a
\* grid that runs into the decay of its element set, and requests to the
\* three tools
ConcurrentRequests ==
    { Complete(e) : e \in Endpoints }
    \cup { Without(Complete("name"), "latitude"),
           WithGrid(Complete("name-jdstep"), <<JD(16), JD(15), Num(Minute)>>),
           [Complete("name") EXCEPT !.name = "test_sat123"],
           [Complete("tle") EXCEPT
               !.tle = TleText(ISS_NAME, SubSeq(ISS_A_LINE1, 1, 52),
                               ISS_A_LINE2)],
           [Request("get-tle-data") EXCEPT !.id = "25544",
                                           !.id_type = "norad"],
           WithGrid([Complete("catalog-number-jdstep") EXCEPT
                        !.catalog = "59582", !.data_source = "celestrak"],
                    <<JD(16), JD(20), Num(Minute)>>),
           [Request("get-tle-data") EXCEPT !.id = "25544",
                                           !.id_type = "catalog"],
           [Request("norad-ids-from-name") EXCEPT !.name = "STARLINK-31000"],
           [Request("names-from-norad-id") EXCEPT !.id = "25544"],
           Request("names-from-norad-id") }

\* a request arrives at a worker while the other may be busy; the
\* limiter counts the requests of both workers
ReceiveConcurrent(r) == Arrive(r, ConcurrentRequests)

\* a step of the worker r
Step(r) ==
    \/ ReceiveConcurrent(r)
    \/ Validate(r)
    \/ TimeGrid(r)
    \/ Resolve(r)
    \/ Propagate(r)
    \/ GetTleData(r)
    \/ GetNoradIdsFromName(r)
    \/ GetNamesFromNoradId(r)
    \/ Finish(r)

\* requests are handled by two workers, in any interleaving of their steps
NextConcurrent == \E r \in Slots : Step(r)

SpecConcurrent == Init /\ [][NextConcurrent]_vars

TypeOK ==
    /\ \A r \in Slots : pc[r] \in {"idle", "refused", "validate", "time",
                                   "resolve", "propagate", "done"}
    /\ \A r \in Slots : response[r].status \in {0, 200, 400, 429, 500}
    /\ hits \in 0..RateLimit

(***************************************************************************)
(* Properties                                                              *)
(***************************************************************************)
\* the request of r has passed the rate limiter and entered its handler
Entered(r) == pc[r] \notin {"idle", "refused"}

\* r is an ephemeris request for an object of the repository, by name or
\* by catalog number
ByObject(r) ==
    params[r].endpoint \in Endpoints /\ ~UsesTle(params[r].endpoint)

\* every required parameter of the request is present
AllPresent(r) ==
    \A q \in Required(params[r].endpoint) : ~Absent(params[r], q)

\* r is a start/stop/step request with numeric times, past the generation
\* of its time grid
GridRequest(r) ==
    /\ pc[r] \in {"resolve", "propagate", "done"}
    /\ IsStep(params[r].endpoint)
    /\ AllPresent(r)
    /\ params[r].startjd.kind = "num"
    /\ params[r].stopjd.kind = "num"
    /\ params[r].stepjd.kind \in {"none", "num"}

\* the start, stop and step of the request (the step defaults to 2 minutes)
ReqStart(r) == params[r].startjd.num
ReqStop(r) == params[r].stopjd.num
ReqStep(r) ==
    IF params[r].stepjd.kind = "none" THEN DefaultStep ELSE params[r].stepjd.num

\* C1: a start/stop/step request whose time grid has more than 1000 samples
\* is rejected with the 400 failure, and no element set is resolved, no
\* element text is parsed and no sample is propagated for it.
C1_TooManyRejected ==
    \A r \in Slots :
        (IsStep(params[r].endpoint) /\ Len(jd[r]) > MaxResults) =>
            /\ pc[r] = "done"
            /\ response[r].status = 400
            /\ response[r].body = << >>
            /\ reads[r] = 0 /\ parsed[r] = 0 /\ propagated[r] = 0
            /\ ~tle[r].found /\ ~user_tle[r].ok

C1_Witness ==
    \E r \in Slots :
        /\ IsStep(params[r].endpoint)
        /\ Len(jd[r]) = MaxResults + 1
        /\ pc[r] = "done"
        /\ response[r].status = 400

\* a grid of 1001 samples of the default step was rejected
C1_WitnessDefaultStep ==
    \E r \in Slots :
        /\ IsStep(params[r].endpoint)
        /\ params[r].stepjd.kind = "none"
        /\ Len(jd[r]) = MaxResults + 1
        /\ response[r] = BadRequest

\* C2: for step > 0 and stop >= start the time grid begins at start, has
\* floor((stop - start) / step) + 1 samples, consecutive samples differ by
\* exactly step, and the last sample is <= stop.
C2_GridShape ==
    \A r \in Slots :
        (GridRequest(r) /\ ReqStep(r) > 0 /\ ReqStop(r) >= ReqStart(r)) =>
            /\ Len(jd[r]) = ((ReqStop(r) - ReqStart(r)) \div ReqStep(r)) + 1
            /\ jd[r][1] = ReqStart(r)
            /\ \A i \in 1..(Len(jd[r]) - 1) : jd[r][i + 1] - jd[r][i] = ReqStep(r)
            /\ jd[r][Len(jd[r])] <= ReqStop(r)

\* a grid of two samples that stops short of stop
C2_Witness ==
    \E r \in Slots :
        /\ GridRequest(r)
        /\ ReqStep(r) = 3 * Minute /\ ReqStop(r) = ReqStart(r) + 4 * Minute
        /\ Len(jd[r]) = 2
        /\ jd[r][2] < ReqStop(r)

\* with the default step a stop four minutes after start gives two samples:
\* the third would fall just after stop
C2_WitnessDefaultStep ==
    \E r \in Slots :
        /\ GridRequest(r)
        /\ params[r].stepjd.kind = "none"
        /\ ReqStop(r) = ReqStart(r) + 4 * Minute
        /\ jd[r] = <<ReqStart(r), ReqStart(r) + DefaultStep>>
        /\ ReqStart(r) + 2 * DefaultStep > ReqStop(r)

\* C3: with step <= 0 or stop < start the time grid generation fails with
\* InvalidRangeError, and the request yields that error and no records.
C3_InvalidRange ==
    \A r \in Slots :
        (GridRequest(r) /\ (ReqStep(r) <= 0 \/ ReqStop(r) < ReqStart(r))) =>
            /\ pc[r] = "done"
            /\ response[r].error = "InvalidRangeError"
            /\ response[r].status # 200
            /\ response[r].body = << >>
            /\ jd[r] = << >>
            /\ reads[r] = 0 /\ parsed[r] = 0 /\ propagated[r] = 0

C3_Witness ==
    \E r \in Slots :
        /\ GridRequest(r)
        /\ ReqStep(r) = 0 /\ ReqStop(r) > ReqStart(r)
        /\ response[r].error = "InvalidRangeError"

\* r is a request by name or by catalog number for which get_tle returned
\* an element set
Resolved(r) == ByObject(r) /\ tle[r].found

\* the time the request asks for, as a datetime
ReqTarget(r) ==
    (IF IsStep(params[r].endpoint) THEN params[r].startjd.num
     ELSE params[r].julian_date.num) - JD(0)

\* the stored element sets of the object(s) the request identifies
ReqObjectRows(r) ==
    {c \in Range(tles) :
        \E s \in Range(satellites) :
            /\ s.id = c.sat_id
            /\ IF params[r].endpoint \in {"catalog-number",
                                          "catalog-number-jdstep"}
               THEN s.sat_number = params[r].catalog
               ELSE Upper(s.sat_name) = Upper(params[r].name)}

\* the source the element set of the request is taken from: the source it
\* prefers, spacetrack when it prefers none
ReqSource(r) ==
    IF params[r].data_source = None THEN "spacetrack"
    ELSE params[r].data_source

\* the candidates of the request: those of that source
ReqCandidates(r) == {c \in ReqObjectRows(r) : c.data_source = ReqSource(r)}

Distance(c, r) == Abs(c.epoch - ReqTarget(r))

\* C4: the element set returned is a candidate with the minimal absolute
\* difference |epoch - target_time|; no candidate, earlier or later than
\* the target time, is strictly nearer.
C4_NearestEpoch ==
    \A r \in Slots :
        Resolved(r) =>
            /\ tle[r].tle \in ReqCandidates(r)
            /\ \A c \in ReqCandidates(r) :
                 Distance(tle[r].tle, r) <= Distance(c, r)

\* the nearest epoch is later than the target time although an earlier
\* candidate exists
C4_Witness ==
    \E r \in Slots :
        /\ Resolved(r)
        /\ tle[r].tle.epoch > ReqTarget(r)
        /\ \E c \in ReqCandidates(r) :
             c.epoch < ReqTarget(r) /\ Distance(c, r) > Distance(tle[r].tle, r)

\* C5: of two candidates with epochs equidistant from the target time, one
\* supplemental and one not, the supplemental one is never returned; when
\* they are the nearest, the element set returned is not supplemental.
C5_TieBreak ==
    \A r \in Slots :
        Resolved(r) =>
            \A a, b \in ReqCandidates(r) :
                (/\ Distance(a, r) = Distance(b, r)
                 /\ a.is_supplemental /\ ~b.is_supplemental) =>
                    /\ tle[r].tle # a
                    /\ (Distance(a, r) = Distance(tle[r].tle, r)) =>
                          ~tle[r].tle.is_supplemental

\* the supplemental candidate is later than the target time, the one returned
\* is earlier, and the repository returns the supplemental one first
C5_Witness ==
    \E r \in Slots :
        /\ Resolved(r)
        /\ ~tle[r].tle.is_supplemental
        /\ tle[r].tle.epoch < ReqTarget(r)
        /\ \E i, j \in 1..Len(tles) :
             /\ i < j
             /\ tles[j] = tle[r].tle
             /\ tles[i] \in ReqCandidates(r)
             /\ tles[i].is_supplemental
             /\ tles[i].epoch > ReqTarget(r)
             /\ Distance(tles[i], r) = Distance(tles[j], r)

\* C6: with a source preference, every element set returned has that
\* provenance tag; when the object has no candidate from that source the
\* request fails with NoElementSetFoundError, whatever other sources hold.
C6_SourcePreference ==
    \A r \in Slots :
        (/\ ByObject(r)
         /\ params[r].data_source # None
         /\ reads[r] > 0) =>
            /\ tle[r].found => tle[r].tle.data_source = params[r].data_source
            /\ ReqCandidates(r) = {} =>
                 /\ ~tle[r].found
                 /\ pc[r] = "done"
                 /\ response[r].error = "NoElementSetFoundError"
                 /\ response[r].body = << >>

\* candidates of other sources exist, none of the preferred one
C6_Witness ==
    \E r \in Slots :
        /\ ByObject(r)
        /\ params[r].data_source # None
        /\ reads[r] > 0
        /\ ReqCandidates(r) = {}
        /\ ReqObjectRows(r) # {}
        /\ response[r].error = "NoElementSetFoundError"

\* the time specification of the request is numeric and, for a grid, a
\* valid range of at most 1000 samples
ValidTime(r) ==
    IF IsStep(params[r].endpoint)
    THEN /\ params[r].startjd.kind = "num"
         /\ params[r].stopjd.kind = "num"
         /\ params[r].stepjd.kind \in {"none", "num"}
         /\ ReqStep(r) > 0
         /\ ReqStop(r) >= ReqStart(r)
         /\ ((ReqStop(r) - ReqStart(r)) \div ReqStep(r)) + 1 <= MaxResults
    ELSE params[r].julian_date.kind = "num"

\* r is a complete request by name or catalog number, and the time it asks
\* for is the sentinel 0 / a time a datetime can represent
Lookup(r) == ByObject(r) /\ AllPresent(r) /\ ValidTime(r)

Sentinel(r) ==
    ~IsStep(params[r].endpoint) /\ params[r].julian_date = Num(0)

Representable(r) ==
    ReqTarget(r) >= 0 /\ ReqTarget(r) <= (DatetimeMaxJD - DatetimeMinJD) * Minute

\* a time no datetime can represent, before datetime.min or after
\* datetime.max, fails in to_datetime with a ValueError nothing catches,
\* before the repository is read
UnrepresentableFails ==
    \A r \in Slots :
        (Lookup(r) /\ ~Representable(r) /\ pc[r] = "done") =>
            /\ response[r] = Unhandled("ValueError")
            /\ reads[r] = 0

\* a request for the first instant after datetime.max has failed so
UnrepresentableWitness ==
    \E r \in Slots :
        /\ Lookup(r) /\ pc[r] = "done"
        /\ ReqTarget(r) + JD(0) = Beyond
        /\ response[r].status = 500
        /\ reads[r] = 0

\* C7: with julian_date = 0 (use the intrinsic epoch) the request does not
\* fail on the time value; the resolver returns the candidate with the
\* latest collection timestamp among the source-filtered candidates.
C7_SentinelLatestCollected ==
    \A r \in Slots :
        (/\ Lookup(r) /\ Sentinel(r)
         /\ ReqCandidates(r) # {}
         /\ pc[r] = "done") =>
            /\ response[r].status = 200
            /\ tle[r].found
            /\ tle[r].tle \in ReqCandidates(r)
            /\ \A c \in ReqCandidates(r) :
                 c.date_collected <= tle[r].tle.date_collected

\* C8: a request for an object that is unknown or has no stored element sets
\* never yields records and nothing is propagated for it; it fails with
\* NoElementSetFoundError, a 500 response carrying "No TLE found".
C8_NoElementSetFound ==
    \A r \in Slots :
        (/\ ByObject(r)
         /\ Entered(r)
         /\ ReqObjectRows(r) = {}) =>
            /\ response[r].status # 200
            /\ response[r].body = << >>
            /\ propagated[r] = 0
            /\ ~tle[r].found
            /\ pc[r] # "propagate"
            /\ (pc[r] = "done" /\ Lookup(r) /\ Representable(r)) =>
                 /\ reads[r] = 1
                 /\ response[r] = Response(500, "NoElementSetFoundError",
                                           "No TLE found", << >>)

\* a known object without element sets
C8_Witness ==
    \E r \in Slots :
        /\ ByObject(r)
        /\ \E s \in Range(satellites) :
             /\ s.sat_number = params[r].catalog \/ s.sat_name = params[r].name
             /\ \A c \in Range(tles) : c.sat_id # s.id
        /\ reads[r] = 1
        /\ response[r].status = 500
        /\ response[r].message = "No TLE found"

\* several objects have the name the request gives
SharedName(r) ==
    /\ params[r].endpoint \in {"name", "name-jdstep"}
    /\ Cardinality({s \in Range(satellites) :
                      Upper(s.sat_name) = Upper(params[r].name)}) > 1

\* C9: when several objects share the name, the element set is selected
\* from the element sets of all of them by the policy for a single object
\* (nearest epoch, then non-supplemental), and the object returned with it
\* is its owner.
C9_SharedNamePooled ==
    \A r \in Slots :
        (Resolved(r) /\ SharedName(r)) =>
            /\ tle[r].tle \in ReqCandidates(r)
            /\ \A c \in ReqCandidates(r) :
                 \/ Distance(tle[r].tle, r) < Distance(c, r)
                 \/ /\ Distance(tle[r].tle, r) = Distance(c, r)
                    /\ tle[r].tle.is_supplemental => c.is_supplemental
            /\ tle[r].sat \in Range(satellites)
            /\ tle[r].sat.id = tle[r].tle.sat_id
            /\ (pc[r] = "done" /\ response[r].status = 200) =>
                 \A i \in 1..Len(response[r].body) :
                    response[r].body[i].CATALOG_ID = tle[r].sat.sat_number

\* the element set selected belongs to the second of two objects that both
\* have candidates, and the records carry its catalog number
C9_Witness ==
    \E r \in Slots :
        /\ Resolved(r) /\ SharedName(r)
        /\ pc[r] = "done" /\ response[r].status = 200
        /\ \E c \in ReqCandidates(r) : c.sat_id < tle[r].tle.sat_id
        /\ response[r].body[1].CATALOG_ID = "59583"

\* C10: a request with a structurally invalid element text fails with
\* MalformedElementSetError ("Incorrect TLE format"); a request with an
\* element text never yields NoElementSetFoundError ("No TLE found") and a
\* request by name or catalog number never yields MalformedElementSetError.
C10_MalformedDistinct ==
    \A r \in Slots :
        /\ (/\ UsesTle(params[r].endpoint)
            /\ params[r].tle \in BadTexts
            /\ AllPresent(r) /\ ValidTime(r)
            /\ pc[r] = "done") =>
               /\ parsed[r] = 1
               /\ response[r] = Response(500, "MalformedElementSetError",
                                         "Incorrect TLE format", << >>)
        /\ (UsesTle(params[r].endpoint) /\ Entered(r)) =>
               /\ response[r].error # "NoElementSetFoundError"
               /\ response[r].message # "No TLE found"
        /\ ByObject(r) =>
               /\ response[r].error # "MalformedElementSetError"
               /\ response[r].message # "Incorrect TLE format"

\* the element text of tests/test_errors.py: a truncated line
C10_Witness ==
    \E r \in Slots :
        /\ UsesTle(params[r].endpoint)
        /\ params[r].tle = TleText(ISS_NAME, SubSeq(ISS_A_LINE1, 1, 52),
                                   ISS_A_LINE2)
        /\ response[r].status = 500
        /\ response[r].message = "Incorrect TLE format"

\* the sum of the digits of the first n characters of a line with each
\* "-" counted as 1, modulo 10
DigitSum(line, n) ==
    LET Count(c) == Cardinality({i \in 1..n : line[i] = c})
    IN  (Count("1") + 2 * Count("2") + 3 * Count("3") + 4 * Count("4")
         + 5 * Count("5") + 6 * Count("6") + 7 * Count("7") + 8 * Count("8")
         + 9 * Count("9") + Count("-")) % 10

\* the lines v with the checksum character of one line replaced by a
\* different character
ChecksumReplaced(text) ==
    \E v \in ValidLines, c \in CheckChars :
        \/ c # v[1][LineLen] /\ text = TleText(ISS_NAME, WithLast(v[1], c), v[2])
        \/ c # v[2][LineLen] /\ text = TleText(ISS_NAME, v[1], WithLast(v[2], c))

\* C11: a valid two-line element text whose checksum character (the last
\* column of line 1 or of line 2) is replaced by a different character fails
\* to parse with MalformedElementSetError; the checksum of a line is the
\* sum of its digits, "-" counted as 1, modulo 10, so every text that
\* parses carries that digit in the last column of both lines.
C11_ChecksumRejected ==
    \A r \in Slots :
        /\ (UsesTle(params[r].endpoint) /\ ChecksumReplaced(params[r].tle)) =>
            /\ ~user_tle[r].ok
            /\ pc[r] # "propagate"
            /\ parsed[r] = 1 =>
                  /\ pc[r] = "done"
                  /\ response[r] = Response(500, "MalformedElementSetError",
                                            "Incorrect TLE format", << >>)
                  /\ propagated[r] = 0
        /\ user_tle[r].ok =>
            /\ DigitVal(user_tle[r].tle_line1[LineLen])
                 = DigitSum(user_tle[r].tle_line1, LineLen - 1)
            /\ DigitVal(user_tle[r].tle_line2[LineLen])
                 = DigitSum(user_tle[r].tle_line2, LineLen - 1)
        /\ (UsesTle(params[r].endpoint) /\ parsed[r] = 1
            /\ \E v \in ValidLines :
                  params[r].tle = TleText(ISS_NAME, v[1], v[2])) =>
            user_tle[r].ok

\* a text whose line 2 has a "-" in place of its checksum digit was parsed
\* and rejected
C11_Witness ==
    \E r \in Slots :
        /\ UsesTle(params[r].endpoint)
        /\ ChecksumReplaced(params[r].tle)
        /\ params[r].tle = TleText(ISS_NAME, ISS_B_LINE1,
                                   WithLast(ISS_B_LINE2, "-"))
        /\ parsed[r] = 1
        /\ response[r].error = "MalformedElementSetError"

\* the element text of request r was parsed successfully
Parsed(r) == UsesTle(params[r].endpoint) /\ user_tle[r].ok

\* the text made of the optional name line and the two lines
Serialized(text, l1, l2) ==
    LET two == l1 \o <<NL>> \o l2
    IN  /\ Len(text) >= Len(two)
        /\ SubSeq(text, Len(text) - Len(two) + 1, Len(text)) = two
        /\ Len(text) > Len(two) =>
              /\ text[Len(text) - Len(two)] = NL
              /\ \A i \in 1..(Len(text) - Len(two) - 1) : text[i] # NL

\* r is an ephemeris request that was answered with records
Answered(r) ==
    /\ params[r].endpoint \in Endpoints
    /\ pc[r] = "done"
    /\ response[r].status = 200

\* the i-th sample of the time grid the request r asks for
Sample(r, i) ==
    IF IsStep(params[r].endpoint) THEN ReqStart(r) + (i - 1) * ReqStep(r)
    ELSE params[r].julian_date.num

\* C13: the records of a successful request are in time-grid order: the
\* JULIAN_DATE of the i-th record is the i-th sample of the grid, so for a
\* start/stop/step request the record times are strictly increasing and no
\* two records share a time.
C13_GridOrder ==
    \A r \in Slots :
        Answered(r) =>
            LET body == response[r].body
            IN  /\ \A i \in 1..Len(body) : body[i].JULIAN_DATE = Sample(r, i)
                /\ \A i \in 1..(Len(body) - 1) :
                      body[i].JULIAN_DATE < body[i + 1].JULIAN_DATE

C13_Witness ==
    \E r \in Slots :
        /\ Answered(r)
        /\ IsStep(params[r].endpoint)
        /\ ReqStep(r) = 3 * Minute
        /\ Len(response[r].body) = 2
        /\ response[r].body[2].JULIAN_DATE = ReqStart(r) + 3 * Minute

\* the number of samples of the time grid the request r asks for
Samples(r) ==
    IF IsStep(params[r].endpoint)
    THEN (ReqStop(r) - ReqStart(r)) \div ReqStep(r) + 1
    ELSE 1

\* the samples of the grid of request r at which the propagation of the
\* selected element set fails
FailingSamples(r) ==
    IF Resolved(r) /\ tle[r].tle.id = DecayingRow
    THEN {i \in 1..Samples(r) : Sample(r, i) >= DecayJD}
    ELSE { }

\* C15: if propagation fails for any one sample of the grid, at whatever
\* position, the whole request fails with that PropagationError; a response
\* never carries a partial batch.
C15_NoPartialBatch ==
    \A r \in Slots :
        /\ (pc[r] = "done" /\ FailingSamples(r) # { }) =>
              /\ response[r].error = "PropagationError"
              /\ response[r].status = 500
              /\ response[r].body = << >>
        /\ (params[r].endpoint \in Endpoints /\ response[r].body # << >>) =>
              /\ response[r].status = 200
              /\ Len(response[r].body) = Samples(r)
              /\ FailingSamples(r) = { }

\* the third of five samples failed after two samples were propagated
C15_Witness ==
    \E r \in Slots :
        /\ pc[r] = "done"
        /\ FailingSamples(r) = {3, 4, 5}
        /\ Samples(r) = 5
        /\ propagated[r] = 3
        /\ response[r].error = "PropagationError"

\* the only sample of a single-instant request failed
C15_WitnessFirst ==
    \E r \in Slots :
        /\ pc[r] = "done"
        /\ FailingSamples(r) = {1}
        /\ response[r].error = "PropagationError"

\* r is a request to /tools/get-tle-data/ that has been handled
TleDataDone(r) == params[r].endpoint = "get-tle-data" /\ pc[r] = "done"

\* C20: a request to /tools/get-tle-data/ whose id is absent, or whose
\* id_type is anything other than "catalog" or "name" (an absent id_type
\* included), is rejected with 400 and makes no repository read.
C20_TleDataRejected ==
    \A r \in Slots :
        (/\ TleDataDone(r)
         /\ \/ params[r].id = None
            \/ params[r].id_type # "catalog" /\ params[r].id_type # "name") =>
            /\ response[r].status = 400
            /\ response[r].body = << >>
            /\ reads[r] = 0

\* an id with no id_type was rejected
C20_Witness ==
    \E r \in Slots :
        /\ TleDataDone(r)
        /\ params[r].id = "25544"
        /\ params[r].id_type = None
        /\ response[r].status = 400
        /\ reads[r] = 0

\* the error kinds of the taxonomy
ErrorKinds == {"InvalidRangeError", "InvalidIdentifierError",
               "NoElementSetFoundError", "MalformedElementSetError",
               "PropagationError"}

\* what a client sees of a failure: the status and the text of the response
FailureClass(resp) == <<resp.status, resp.message>>

\* the request of worker r has failed with an error of the taxonomy
FailedWith(r) == pc[r] = "done" /\ response[r].error \in ErrorKinds

\* C16: each error kind (InvalidRangeError, InvalidIdentifierError,
\* NoElementSetFoundError, MalformedElementSetError, PropagationError) is
\* answered with its own failure class: two requests that fail with
\* different kinds never get the same class, read as the status together
\* with the text of the response.
C16_DistinctFailureClasses ==
    \A r, q \in Slots :
        (/\ FailedWith(r) /\ FailedWith(q)
         /\ response[r].error # response[q].error) =>
            FailureClass(response[r]) # FailureClass(response[q])

\* two requests that fail with different kinds get the same class exactly
\* when the kinds are the two that no handler catches, InvalidRangeError and
\* PropagationError: both are answered with the 500 of an uncaught
\* exception (routes.py:55-57)
SharedClass ==
    \A r, q \in Slots :
        (/\ FailedWith(r) /\ FailedWith(q)
         /\ response[r].error # response[q].error) =>
            (FailureClass(response[r]) = FailureClass(response[q])
               <=> {response[r].error, response[q].error}
                     = {"InvalidRangeError", "PropagationError"})

\* the two uncaught kinds have been answered side by side
UncaughtSideBySide ==
    \E r, q \in Slots :
        /\ FailedWith(r) /\ FailedWith(q)
        /\ response[r].error = "InvalidRangeError"
        /\ response[q].error = "PropagationError"
        /\ response[r].status = 500 /\ response[q].status = 500

\* r is an ephemeris request that lacks latitude, longitude, elevation, its
\* time (julian_date, or startjd/stopjd) or its name or catalog number
LackingRequired(r) ==
    LET req == params[r]
    IN  /\ Entered(r)
        /\ req.endpoint \in Endpoints
        /\ \/ req.latitude.kind = "none"
           \/ req.longitude.kind = "none"
           \/ req.elevation.kind = "none"
           \/ ~IsStep(req.endpoint) /\ req.julian_date.kind = "none"
           \/ IsStep(req.endpoint) /\ req.startjd.kind = "none"
           \/ IsStep(req.endpoint) /\ req.stopjd.kind = "none"
           \/ req.endpoint \in {"name", "name-jdstep"} /\ req.name = None
           \/ /\ req.endpoint \in {"catalog-number", "catalog-number-jdstep"}
              /\ req.catalog = None

\* such a request that, when it goes to /ephemeris/tle/ or
\* /ephemeris/tle-jdstep/, carries its element text
Lacking(r) ==
    /\ LackingRequired(r)
    /\ UsesTle(params[r].endpoint) => params[r].tle # NoText

\* the request r is rejected with 400 and "Incorrect parameters" before
\* any time grid, resolution, parse or propagation
RejectedFirst(r) ==
    /\ pc[r] \in {"validate", "done"}
    /\ pc[r] = "done" =>
          /\ response[r].status = 400
          /\ response[r].message
               = "Incorrect parameters or too many results to return"
          /\ response[r].body = << >>
    /\ jd[r] = << >>
    /\ reads[r] = 0 /\ parsed[r] = 0 /\ propagated[r] = 0
    /\ ~tle[r].found /\ ~user_tle[r].ok

\* C17 as stated: every ephemeris request that lacks latitude, longitude,
\* elevation, its time specification (julian_date, or startjd/stopjd of a
\* jdstep request) or its name or catalog identifier is rejected with 400
\* and "Incorrect parameters", before any resolution or propagation.
C17_EveryLackingRejected ==
    \A r \in Slots : LackingRequired(r) => RejectedFirst(r)

\* C17 as amended: every ephemeris request that lacks latitude, longitude,
\* elevation, its time specification or its name or catalog identifier is
\* rejected with 400 and "Incorrect parameters", before any resolution or
\* propagation, provided a request to /ephemeris/tle/ or
\* /ephemeris/tle-jdstep/ carries its tle parameter; without it such a
\* request fails with 500, whatever else it lacks.
C17_MissingParameter ==
    \A r \in Slots :
        /\ Lacking(r) => RejectedFirst(r)
        /\ (LackingRequired(r) /\ ~Lacking(r) /\ pc[r] = "done") =>
              /\ response[r].status = 500
              /\ response[r].body = << >>
              /\ reads[r] = 0 /\ parsed[r] = 0 /\ propagated[r] = 0

\* a request to /ephemeris/tle/ that carries its element text and lacks
\* latitude and elevation was rejected with 400
C17_Witness ==
    \E r \in Slots :
        /\ Lacking(r)
        /\ params[r].endpoint = "tle"
        /\ params[r].tle # NoText
        /\ params[r].latitude.kind = "none"
        /\ params[r].elevation.kind = "none"
        /\ pc[r] = "done"
        /\ response[r] = BadRequest

\* the request of test_errors.py:11-19, a name without julian_date
C17_WitnessName ==
    \E r \in Slots :
        /\ Lacking(r)
        /\ params[r].endpoint = "name"
        /\ params[r].name = "ISS (ZARYA)"
        /\ params[r].julian_date.kind = "none"
        /\ pc[r] = "done"
        /\ response[r].status = 400

\* a request to /ephemeris/tle/ without its element text and without
\* latitude was answered 500
C17_WitnessNoText ==
    \E r \in Slots :
        /\ LackingRequired(r)
        /\ params[r].endpoint = "tle"
        /\ params[r].tle = NoText
        /\ params[r].latitude.kind = "none"
        /\ pc[r] = "done"
        /\ response[r].status = 500

\* the lines stored in the repository
StoredLines ==
    {tles[i].tle_line1 : i \in 1..Len(tles)}
    \cup {tles[i].tle_line2 : i \in 1..Len(tles)}

\* C18: a request with raw element text is served without any repository
\* read: the element set used is the parsed text of the user, whatever the
\* repository holds for that catalog number and whatever data_source comes
\* with the request, and the records carry DATA_SOURCE = "user".
C18_UserTextOnly ==
    \A r \in Slots :
        (UsesTle(params[r].endpoint) /\ Entered(r)) =>
            /\ reads[r] = 0
            /\ ~tle[r].found
            /\ Parsed(r) =>
                  LET l1 == Line1Arg(Parameters(r), tle[r], user_tle[r])
                      l2 == Line2Arg(Parameters(r), tle[r], user_tle[r])
                  IN  /\ <<l1, l2>> \in ValidLines
                      /\ Serialized(params[r].tle, l1, l2)
                      /\ l1 \notin StoredLines /\ l2 \notin StoredLines
            /\ (pc[r] = "done" /\ response[r].status = 200) =>
                  /\ Parsed(r)
                  /\ \A i \in 1..Len(response[r].body) :
                        /\ response[r].body[i].DATA_SOURCE = "user"
                        /\ response[r].body[i].CATALOG_ID = user_tle[r].catalog
                        /\ response[r].body[i].TLE_DATE
                             = user_tle[r].date_collected

\* element text for catalog number 25544, which the repository holds with
\* other element sets, sent with data_source=celestrak
C18_Witness ==
    \E r \in Slots :
        /\ UsesTle(params[r].endpoint)
        /\ params[r].data_source = "celestrak"
        /\ pc[r] = "done" /\ response[r].status = 200
        /\ response[r].body[1].DATA_SOURCE = "user"
        /\ response[r].body[1].CATALOG_ID = "25544"
        /\ \E i \in 1..Len(satellites) : satellites[i].sat_number = "25544"
        /\ reads[r] = 0

\* C19: in every record of a request by name or by catalog number the
\* metadata is that of the selected element set and its owner: DATA_SOURCE
\* is the provenance tag of the selected element set, also when the request
\* gave no data_source preference, TLE_DATE its collection timestamp and
\* CATALOG_ID the catalog id of the owner.
C19_RecordMetadata ==
    \A r \in Slots :
        (ByObject(r) /\ Answered(r)) =>
            \A i \in 1..Len(response[r].body) :
                /\ response[r].body[i].DATA_SOURCE = tle[r].tle.data_source
                /\ response[r].body[i].TLE_DATE = tle[r].tle.date_collected
                /\ response[r].body[i].CATALOG_ID = tle[r].sat.sat_number

\* the request of test_integration.py:108-148, a name without data_source:
\* the records carry the tag spacetrack of the element set selected
C19_Witness ==
    \E r \in Slots :
        /\ ByObject(r) /\ Answered(r)
        /\ params[r].name = "ISS (ZARYA)"
        /\ params[r].data_source = None
        /\ tle[r].tle.data_source = "spacetrack"
        /\ response[r].body[1].DATA_SOURCE = "spacetrack"
        /\ response[r].body[1].CATALOG_ID = "25544"
        /\ response[r].body[1].TLE_DATE = tle[r].tle.date_collected

\* a finished request to one of the two lookups of /tools/
LookupDone(r) ==
    /\ params[r].endpoint \in {"norad-ids-from-name", "names-from-norad-id"}
    /\ pc[r] = "done"

\* the parameter a lookup requires: name, or id
LookupKey(r) ==
    IF params[r].endpoint = "norad-ids-from-name" THEN params[r].name
    ELSE params[r].id

\* C21: a request to /tools/norad-ids-from-name/ without name, and a request
\* to /tools/names-from-norad-id/ without id, are each rejected with 400 and
\* the message "Incorrect parameters".
C21_LookupKeyRequired ==
    \A r \in Slots :
        (LookupDone(r) /\ LookupKey(r) = None) =>
            /\ response[r].status = 400
            /\ response[r].message = BadRequest.message

\* the half of C21 the code keeps: without id, names-from-norad-id is
\* rejected with 400 before any read
MissingIdRejected ==
    \A r \in Slots :
        (/\ LookupDone(r)
         /\ params[r].endpoint = "names-from-norad-id"
         /\ params[r].id = None) =>
            response[r] = BadRequest /\ reads[r] = 0

\* a tool request whose repository read was made and raised nothing
ToolRead(r) ==
    /\ params[r].endpoint \notin Endpoints
    /\ pc[r] = "done"
    /\ reads[r] = 1
    /\ fault[r] = "none"

\* the bounds of the epochs a get-tle-data request asks for
FromDate(r) ==
    IF params[r].start_date_jd.kind \in {"none", "empty"} THEN JD(0)
    ELSE params[r].start_date_jd.num

ToDate(r) ==
    IF params[r].end_date_jd.kind \in {"none", "empty"} THEN JD(CurrentTime)
    ELSE params[r].end_date_jd.num

\* the stored rows a tool request is about: satellites rows for the two
\* lookups, element sets of the identified object for get-tle-data
Matching(r) ==
    LET req == params[r]
    IN  CASE req.endpoint = "norad-ids-from-name" ->
               {i \in 1..Len(satellites) :
                  satellites[i].sat_name = Upper(req.name)}
          [] req.endpoint = "names-from-norad-id" ->
               {i \in 1..Len(satellites) : satellites[i].sat_number = req.id}
          [] OTHER ->
               {i \in 1..Len(tles) :
                  /\ \E k \in 1..Len(satellites) :
                       /\ satellites[k].id = tles[i].sat_id
                       /\ IF req.id_type = "catalog"
                          THEN satellites[k].sat_number = req.id
                          ELSE satellites[k].sat_name = req.id
                  /\ JD(0) + tles[i].epoch >= FromDate(r)
                  /\ JD(0) + tles[i].epoch <= ToDate(r)}

\* C22: a tool request whose repository read succeeds completes with 200
\* and a list of exactly one entry per stored row that matches; for an
\* identifier that matches nothing the list is empty, not an error.
C22_OneEntryPerRow ==
    \A r \in Slots :
        ToolRead(r) =>
            /\ response[r].status = 200
            /\ Len(response[r].body) = Cardinality(Matching(r))
            /\ Matching(r) = {} => response[r].body = << >>

\* names-from-norad-id and get-tle-data answer 200 and [] for id 1, which
\* no object has, and get-tle-data lists the three element sets of 25544
C22_Witness ==
    /\ ToolRead(1)
    /\ \/ /\ params[1].endpoint = "names-from-norad-id"
          /\ params[1].id = "1"
          /\ response[1] = Ok(<< >>)
       \/ /\ params[1].endpoint = "get-tle-data"
          /\ params[1].id = "1"
          /\ params[1].id_type = "catalog"
          /\ response[1] = Ok(<< >>)

\* names-from-norad-id lists both satellites rows of the catalog number
\* 59582, one entry for each of its names (test_integration.py:690-698)
C22_WitnessRows ==
    /\ ToolRead(1)
    /\ params[1].endpoint = "names-from-norad-id"
    /\ params[1].id = "59582"
    /\ Len(response[1].body) = 2
    /\ response[1].body[1].name # response[1].body[2].name

\* get-tle-data takes an empty start_date_jd for no start date and lists
\* the element sets of every epoch
C22_WitnessEmptyDate ==
    /\ ToolRead(1)
    /\ params[1].endpoint = "get-tle-data"
    /\ params[1].start_date_jd = Empty
    /\ params[1].end_date_jd = NoneP
    /\ params[1].id = "25544"
    /\ Len(response[1].body) = 3

\* a finished request to /ephemeris/tle/ or /ephemeris/tle-jdstep/ that
\* gives every required parameter but the element-set text
TleAbsent(r) ==
    /\ params[r].endpoint \in Endpoints
    /\ UsesTle(params[r].endpoint)
    /\ pc[r] = "done"
    /\ params[r].tle = NoText
    /\ \A q \in Required(params[r].endpoint) \ {"tle"} : ~Absent(params[r], q)

\* C23: a request to /ephemeris/tle/ or /ephemeris/tle-jdstep/ in which tle
\* is absent and every other required parameter is present fails with
\* status 500, not 400, and nothing is parsed or propagated.
C23_AbsentTleFails ==
    \A r \in Slots :
        TleAbsent(r) =>
            /\ response[r].status = 500
            /\ response[r].body = << >>
            /\ parsed[r] = 0
            /\ propagated[r] = 0

\* /ephemeris/tle-jdstep/ has answered 500 to a request without tle
C23_Witness ==
    /\ TleAbsent(1)
    /\ params[1].endpoint = "tle-jdstep"
    /\ response[1].status = 500

\* C24: in a request by name or catalog number the repository is read once
\* and the element set resolved once, before any sample is propagated, and
\* every record of the answer carries the same TLE_DATE, CATALOG_ID and
\* DATA_SOURCE.
C24_ResolvedOnce ==
    \A r \in Slots :
        ByObject(r) =>
            /\ reads[r] <= 1
            /\ pc[r] \in {"idle", "validate", "time", "resolve"} =>
                 reads[r] = 0 /\ propagated[r] = 0 /\ ~tle[r].found
            /\ pc[r] = "propagate" =>
                 reads[r] = 1 /\ propagated[r] = 0 /\ tle[r].found
            /\ propagated[r] > 0 => reads[r] = 1 /\ tle[r].found
            /\ Answered(r) =>
                 /\ reads[r] = 1
                 /\ \A i, k \in 1..Len(response[r].body) :
                      (k = i + 1) =>
                        /\ response[r].body[i].TLE_DATE =
                             response[r].body[k].TLE_DATE
                        /\ response[r].body[i].CATALOG_ID =
                             response[r].body[k].CATALOG_ID
                        /\ response[r].body[i].DATA_SOURCE =
                             response[r].body[k].DATA_SOURCE

\* a start/stop/step request by name was answered with five records after
\* one read
C24_Witness ==
    /\ Answered(1)
    /\ params[1].endpoint = "name-jdstep"
    /\ Len(response[1].body) = 5
    /\ propagated[1] = 5
    /\ reads[1] = 1

\* the response to an ephemeris request handled from receipt to response
\* with no other request in progress: validation, time grid, resolution or
\* parsing, propagation, one after the other
AloneEphemeris(req, sats, rows) ==
    LET validated == Validated(req)
        parameters == validated.parameters
        single == ~IsStep(req.endpoint)
        grid == IF single THEN [error |-> None, jd |-> << >>]
                ELSE jd_arange(parameters.startjd.num, parameters.stopjd.num,
                               StepOf(parameters))
        times == IF single THEN <<parameters.julian_date.num>> ELSE grid.jd
        user == parse_tle(parameters.tle)
        date == to_datetime(TargetSample(times))
        sel == get_tle(sats, rows, Identifier(parameters),
                       use_catalog_number(req.endpoint),
                       SourcePreference(parameters), Target(date.dt))
        line1 == Line1Arg(parameters, sel, user)
        result == propagate_and_create_json_results(
                    parameters.location,
                    SamplesArg(times), line1, Line2Arg(parameters, sel, user),
                    RecordDate(parameters, sel, user),
                    RecordName(parameters, sel, user),
                    parameters.min_altitude, parameters.max_altitude,
                    RecordCatalog(parameters, sel, user),
                    RecordSource(parameters))
    IN  IF UsesTle(req.endpoint) /\ Absent(parameters, "tle")
        THEN Unhandled("AttributeError")
        ELSE IF ~validated.ok
        THEN BadRequest
        ELSE IF single /\ parameters.julian_date.kind # "num"
        THEN Abort500("InvalidJD", "Invalid Julian Date")
        ELSE IF ~single /\ (\/ ~IsFloat(parameters.startjd)
                            \/ ~IsFloat(parameters.stopjd)
                            \/ /\ parameters.stepjd.kind # "none"
                               /\ ~IsFloat(parameters.stepjd))
        THEN Unhandled("ValueError")
        ELSE IF grid.error # None THEN Raise(grid.error)
        ELSE IF TooMany(times) THEN BadRequest
        ELSE IF UsesTle(req.endpoint) /\ ~user.ok
        THEN Abort500("MalformedElementSetError", "Incorrect TLE format")
        ELSE IF ~UsesTle(req.endpoint) /\ ~date.ok
        THEN Unhandled("ValueError")
        ELSE IF ~UsesTle(req.endpoint) /\ ~sel.found
        THEN Abort500("NoElementSetFoundError", "No TLE found")
        ELSE IF result.error # None THEN Raise(result.error)
        ELSE Ok(result.body)

\* the response to a tool request handled alone, when its repository read
\* raises f
AloneTool(req, sats, rows, f) ==
    LET key == IF req.endpoint = "norad-ids-from-name" THEN req.name ELSE req.id
        start_date == DateArg(req.start_date_jd)
        end_date == DateArg(req.end_date_jd)
        found ==
            CASE req.endpoint = "norad-ids-from-name" ->
                   LET listed == get_ids_for_satelltite_name(sats, Upper(key))
                   IN  [i \in 1..Len(listed) |->
                          [name |-> Upper(key),
                           norad_id |-> listed[i].sat_number,
                           date_added |-> listed[i].date_added]]
              [] req.endpoint = "names-from-norad-id" ->
                   LET listed == get_names_for_satellite_id(sats, key)
                   IN  [i \in 1..Len(listed) |->
                          [name |-> listed[i].sat_name, norad_id |-> key,
                           date_added |-> listed[i].date_added]]
              [] OTHER ->
                   LET listed == get_tles(sats, rows, key, req.id_type,
                                          start_date.date, end_date.date)
                   IN  [i \in 1..Len(listed) |-> TleData(sats, listed[i])]
    IN  IF key = None
        THEN (IF req.endpoint = "norad-ids-from-name" THEN NameArg(key)
              ELSE BadRequest)
        ELSE IF req.endpoint = "get-tle-data" /\ ~ValidIdType(req.id_type)
        THEN InvalidIdentifier
        ELSE IF req.endpoint = "get-tle-data"
                /\ (~start_date.ok \/ ~end_date.ok)
        THEN Unhandled("ValueError")
        ELSE IF f = "none" THEN Ok(found)
        ELSE IF req.endpoint = "get-tle-data" /\ f = "DataError"
        THEN Abort500("DataError", "No TLE found")
        ELSE ReturnedNone

Alone(req, sats, rows, f) ==
    IF req.endpoint \in Endpoints THEN AloneEphemeris(req, sats, rows)
    ELSE AloneTool(req, sats, rows, f)

\* handled one at a time, every request gets the response of Alone
HandledAlone ==
    pc[1] = "done" => response[1] = Alone(params[1], satellites, tles, fault[1])

\* the variables of the request of one worker
Local(r) ==
    <<pc[r], params[r], jd[r], tle[r], user_tle[r], response[r], reads[r],
      parsed[r], fault[r], propagated[r]>>

\* every step changes the variables of one worker only
NoInterference ==
    [][\E r \in Slots : \A q \in Slots \ {r} : Local(q)' = Local(q)]_vars

\* the one thing the workers share besides the repository: the count of the
\* rate limiter, by which a request is refused before its handler is
\* entered while the request of the other worker is in progress
RefusedWhileBusy ==
    /\ pc[1] \in {"validate", "time", "resolve", "propagate"}
    /\ pc[2] = "refused"
    /\ response[2] = TooManyRequests

\* C25: with two requests in progress against the same snapshot, in every
\* interleaving of their steps, each request always has a step it can take
\* whatever the position of the other, and the response of a request that
\* is processed (its handler was entered) is the response the same request
\* gets when it is handled alone; the same request on the same snapshot
\* (and the same outcome of the tool's read) gets the same response.
C25_Independent ==
    /\ \A r \in Slots : ENABLED Step(r)
    /\ \A r \in Slots :
         pc[r] = "done" =>
           response[r] = Alone(params[r], satellites, tles, fault[r])
    /\ \A r, q \in Slots :
         (/\ pc[r] = "done" /\ pc[q] = "done"
          /\ params[r] = params[q] /\ fault[r] = fault[q]) =>
            response[r] = response[q]

\* both workers have answered the same grid request by catalog number while
\* in progress together
C25_Witness ==
    /\ pc[1] = "done" /\ pc[2] = "done"
    /\ params[1] = Complete("catalog-number-jdstep")
    /\ params[2] = params[1]
    /\ response[1].status = 200
    /\ response[2] = response[1]

\* C26: no request of any endpoint creates, updates or deletes a stored
\* object or element set: every step leaves the repository as it was, so
\* its contents after any sequence of requests are those before it.
C26_RepositoryUnchanged ==
    [][satellites' = satellites /\ tles' = tles]_vars

\* get-tle-data has read the three element sets of an object from the
\* repository, which still holds the rows it started with
C26_Witness ==
    /\ pc[1] = "done"
    /\ reads[1] = 1
    /\ response[1].status = 200
    /\ Len(response[1].body) = 3
    /\ params[1].endpoint = "get-tle-data"
    /\ satellites = SatelliteRows
    /\ tles \in TleSnapshots

\* the order of the positions of a handler
Rank(p) ==
    CASE p = "idle" -> 0 [] p = "validate" -> 1 [] p = "time" -> 2
      [] p = "resolve" -> 3 [] p = "propagate" -> 4 [] p = "done" -> 5
      [] p = "refused" -> 5

\* the request of r has its outcome: a complete result, or one error
Terminal(r) ==
    \/ /\ response[r].status = 200
       /\ response[r].error = None
    \/ /\ response[r].status \in {400, 429, 500}
       /\ response[r].error # None
       /\ response[r].body = << >>

\* an outcome only at the end of the handler, each of the read and the
\* parsing made at most once, and nothing resolved, parsed or propagated on
\* behalf of a request rejected before resolution
OneOutcome ==
    \A r \in Slots :
        /\ pc[r] = "done" => Terminal(r)
        /\ pc[r] = "refused" =>
             /\ response[r] = TooManyRequests
             /\ reads[r] = 0 /\ parsed[r] = 0 /\ propagated[r] = 0
        /\ Entered(r) /\ pc[r] # "done" => response[r] = NoResponse
        /\ pc[r] = "idle" => response[r] = NoResponse
        /\ reads[r] <= 1 /\ parsed[r] <= 1
        /\ reads[r] + parsed[r] <= 1
        /\ (pc[r] = "done" /\ params[r].endpoint \in Endpoints
            /\ response[r].status # 200
            /\ response[r].error # "PropagationError") => propagated[r] = 0
        /\ (pc[r] = "done" /\ params[r].endpoint \in Endpoints
            /\ response[r].error \in {"BadRequest", "InvalidJD",
                                      "InvalidRangeError", "AttributeError"}) =>
             reads[r] = 0 /\ parsed[r] = 0

\* a handler only moves forward, and once the request has its outcome
\* nothing more is read, parsed or propagated for it and the outcome is not
\* replaced
NoRetry ==
    \A r \in Slots :
        /\ pc'[r] # pc[r] =>
             \/ Rank(pc'[r]) > Rank(pc[r])
             \/ pc[r] \in {"done", "refused"} /\ pc'[r] = "idle"
        /\ response[r] # NoResponse =>
             \/ pc'[r] = "idle"
             \/ /\ response'[r] = response[r]
                /\ reads'[r] = reads[r]
                /\ parsed'[r] = parsed[r]
                /\ propagated'[r] = propagated[r]

\* C27: every request that is received eventually reaches its outcome, which
\* is either a complete result or one error; once an error is raised no
\* further resolve, parse or propagate step is taken, and no step is taken
\* twice.
C27_OneOutcome ==
    /\ (pc[1] = "validate") ~> (pc[1] = "done")
    /\ []OneOutcome
    /\ [][NoRetry]_vars

\* a request failed at the resolution, with nothing propagated
C27_Witness ==
    /\ pc[1] = "done"
    /\ response[1].error = "NoElementSetFoundError"
    /\ reads[1] = 1
    /\ propagated[1] = 0

\* a finished tool request whose repository read raised an exception
ReadFailed(r) ==
    /\ params[r].endpoint \notin Endpoints
    /\ pc[r] = "done"
    /\ reads[r] = 1
    /\ fault[r] # "none"

\* C28: no error is swallowed: in every endpoint, /tools/ included, a failure
\* of the repository read surfaces as the explicit error outcome of that
\* failure, and the handler never ends normally with None or with a
\* success-shaped result in its place.
C28_NoErrorSwallowed ==
    \A r \in Slots :
        ReadFailed(r) =>
            /\ response[r] # ReturnedNone
            /\ response[r].status # 200
            /\ response[r].error = fault[r]

\* what the tool handlers do: the exception is logged and None is returned,
\* except for a DataError in get-tle-data; the client gets a 500 either way
ReadFailureLogged ==
    \A r \in Slots :
        ReadFailed(r) =>
            /\ response[r].status = 500
            /\ response[r].body = << >>
            /\ (params[r].endpoint = "get-tle-data" /\ fault[r] = "DataError")
                 => response[r] = Abort500("DataError", "No TLE found")
            /\ ~(params[r].endpoint = "get-tle-data" /\ fault[r] = "DataError")
                 => response[r] = ReturnedNone

\* a start/stop/step request with a valid range, past the size check
CappedRequest(r) ==
    /\ GridRequest(r)
    /\ ReqStep(r) > 0
    /\ ReqStop(r) >= ReqStart(r)

\* C29: the cap is inclusive: a start/stop/step request whose grid has from
\* 1 to 1000 samples, 1000 included, is not rejected by the size check and
\* goes on to the resolution or the parsing; a grid is rejected by it if and
\* only if it has 1001 samples or more.
C29_CapInclusive ==
    \A r \in Slots :
        CappedRequest(r) =>
            /\ Samples(r) >= 1
            /\ Samples(r) <= MaxResults =>
                 /\ response[r] # BadRequest
                 /\ Len(jd[r]) = Samples(r)
                 /\ (pc[r] \in {"propagate", "done"}
                     /\ UsesTle(params[r].endpoint)) => parsed[r] = 1
                 /\ (pc[r] \in {"propagate", "done"}
                     /\ ~UsesTle(params[r].endpoint)
                     /\ Representable(r)) => reads[r] = 1
            /\ Samples(r) > MaxResults =>
                 /\ pc[r] = "done"
                 /\ response[r] = BadRequest

\* a grid of exactly 1000 samples was answered with 1000 records
C29_Witness ==
    /\ CappedRequest(1)
    /\ Samples(1) = MaxResults
    /\ Answered(1)
    /\ Len(response[1].body) = MaxResults

\* a grid of exactly 1000 samples of the default step, which stops 2000
\* minutes after it starts, was answered with 1000 records
C29_WitnessDefaultStep ==
    /\ CappedRequest(1)
    /\ params[1].stepjd.kind = "none"
    /\ ReqStop(1) = ReqStart(1) + 2 * MaxResults * Minute
    /\ Answered(1)
    /\ Len(response[1].body) = MaxResults

\* a start/stop/step request by name or catalog number that was resolved
ResolvedGrid(r) ==
    /\ Resolved(r)
    /\ IsStep(params[r].endpoint)
    /\ pc[r] \in {"propagate", "done"}

\* the selection made for the start of the request alone, whatever its stop
\* and its step
SelectionAtStart(r) ==
    get_tle(satellites, tles, Identifier(params[r]),
            use_catalog_number(params[r].endpoint),
            ReqSource(r),
            Target(ReqStart(r) - JD(0)))

\* the distance of the epoch of a candidate to the i-th sample of the grid
DistanceToSample(c, r, i) == Abs(c.epoch - (jd[r][i] - JD(0)))

\* C30: in a start/stop/step request by name or catalog number the target
\* time of the resolution is the first sample, start: the element set
\* selected is the one selected for start alone, the same for every stop
\* and step, and no candidate is nearer to start, even when another
\* candidate is nearer to a later sample.
C30_ResolvedAtStart ==
    \A r \in Slots :
        ResolvedGrid(r) =>
            /\ jd[r][1] = ReqStart(r)
            /\ tle[r] = SelectionAtStart(r)
            /\ \A c \in ReqCandidates(r) :
                 DistanceToSample(tle[r].tle, r, 1)
                     <= DistanceToSample(c, r, 1)

\* the element set of epoch 10 was selected for a grid that starts at 12,
\* although the epoch 20 of another candidate is nearer to its last sample
C30_Witness ==
    /\ ResolvedGrid(1)
    /\ pc[1] = "done"
    /\ response[1].status = 200
    /\ ReqStart(1) = JD(12)
    /\ tle[1].tle.epoch = 10 * Minute
    /\ \E c \in ReqCandidates(1) :
         /\ c.epoch = 20 * Minute
         /\ DistanceToSample(c, 1, Len(jd[1]))
              < DistanceToSample(tle[1].tle, 1, Len(jd[1]))

====
